---- MODULE Spec2Model ----
(***************************************************************************)
(* Hermit (hermit-lib): the plain frame channel with its bounded outbound  *)
(* queue, and the length-limit negotiation of the session controller.      *)
(*                                                                         *)
(* Spec      two peers, each a Client over its own PlainChannel; every     *)
(*           call of a Client runs to its return or to its await of        *)
(*           set_len_limit in one step.                                    *)
(* SinkSpec  the sink of one PlainChannel, shared by tasks that send       *)
(*           through it poll by poll, while set_len_limit is called and    *)
(*           tasks at the other end receive.                               *)
(* SessionSpec  one Client through its session states: the handshake,      *)
(*           downgrade and close, with length-limit requests and calls of  *)
(*           set_len_limit on its channel.                                 *)
(* SecureSpec  two peers with the session secrets of one handshake, which  *)
(*           seal frames and open the frames that reach them, while frames *)
(*           in flight are altered or reordered.                           *)
(* ChunkSpec the secure layer's WriteBuffer cutting written bytes into     *)
(*           chunks, and the two ReadBuffers giving them back.             *)
(* CodecSpec the plain messages turned into Messages and header bytes, and *)
(*           back.                                                         *)
(* StreamSpec  one PlainChannel polled as a Stream over a base stream of   *)
(*           bytes that may be cut short, end or fail.                     *)
(* NonceSpec one NonceSequence advanced call by call, its counter kept in  *)
(*           a narrow width so that it runs out within the run.            *)
(*                                                                         *)
(* In the first three, a write to the base stream completes, fails with   *)
(* an I/O error (and the stream stays failed), or is pending; the wire is  *)
(* a sequence of frames, and a frame left part-way on it stops the         *)
(* receiver there.                                                         *)
(***************************************************************************)
EXTENDS Integers, Sequences, FiniteSets, TLC

\* ------------------------------------------------------------ bounds
MaxOps == 5           \* calls made and transport failures met in a run of Spec
MaxFrames == 2        \* frames handed to the sink in a run of SinkSpec
MaxMultiplier == 2    \* SinkSpec constructs the channel with limit_multiplier in 1..MaxMultiplier
MaxCalls == 3         \* calls made and transport failures met in a run of SessionSpec
MaxSeals == 3         \* frames sealed in a run of SecureSpec
MaxTampers == 1       \* frames altered or reordered in flight in a run of SecureSpec
MaxWrites == 2        \* calls of WriteBuffer::write in a run of ChunkSpec
MaxReads == 2         \* reads asked of each ReadBuffer in a run of ChunkSpec
MaxSinkErrors == 1    \* chunks the sink refuses in a run of ChunkSpec
MaxArrivals == 2      \* deliveries of bytes to the base stream in a run of StreamSpec
MaxPolls == 3         \* polls of the channel as a Stream in a run of StreamSpec
MaxAdvances == 10     \* calls of NonceSequence::advance in a run of NonceSpec

\* --------------------------------------------------------- constants
MIN_LEN_LIMIT == 1023
MAX_LEN_LIMIT == 32767
U16 == 65536
TAG_LEN == 16

Peers == {"client", "server"}
Other(p) == IF p = "client" THEN "server" ELSE "client"

\* The limits a caller asks for: the minimum, a larger one, and one that is
\* out of range (and would read as 4096 if it were cast to u16 unchecked).
ReqLimits == {MIN_LEN_LIMIT, 4096, U16 + 4096}
\* The range a caller hands to adjust_acceptable_len_limit_range.
RangeInputs == { [lo |-> 0, hi |-> 2048] }

\* ------------------------------------------------------ pure helpers
Max(a, b) == IF a >= b THEN a ELSE b
Min(a, b) == IF a <= b THEN a ELSE b

\* usize::clamp
clamp(n, lo, hi) == IF n < lo THEN lo ELSE IF n > hi THEN hi ELSE n

\* RangeInclusive::contains
contains(r, x) == r.lo <= x /\ x <= r.hi

\* (value as u16).to_be_bytes() and u16::from_be_bytes
to_be_bytes(v) == << (v % U16) \div 256, v % 256 >>
from_be_bytes(b) == b[1] * 256 + b[2]

\* Message::new: the header's length is the payload's length.  The payload of
\* a Secure frame is opaque here: only its length and a tag are kept.
Message(t, payload) == [type |-> t, length |-> Len(payload), payload |-> payload]
SecureFrame(n, id) == [type |-> "Secure", length |-> n, payload |-> << id >>]

\* Message::byte_len
byte_len(m) == m.length

\* TryFrom<usize> for AdjustLenLimitRequest: the range check
ValidLimit(value) == contains([lo |-> MIN_LEN_LIMIT, hi |-> MAX_LEN_LIMIT], value)

\* AdjustLenLimitRequest::try_from(value), then Into<Message>
RequestMessage(value) == Message("AdjustLenLimitRequest", to_be_bytes(value))
\* From<AdjustLenLimitRequest> for usize
RequestLimit(m) == from_be_bytes(m.payload)

\* AdjustLenLimitResponse::new(bool), From<AdjustLenLimitResponse> for bool
ResponseMessage(b) == Message("AdjustLenLimitResponse", << IF b THEN 1 ELSE 0 >>)
response_has_accepted(m) == m.payload[1] # 0

\* PlainChannel::set_len_limit: the value stored
set_len_limit_value_unclamped(n) == n
set_len_limit_value(n) == clamp(n, MIN_LEN_LIMIT, MAX_LEN_LIMIT)

\* Client::adjust_acceptable_len_limit_range: the range stored
adjust_range(r) == [lo |-> Max(r.lo, MIN_LEN_LIMIT), hi |-> Min(r.hi, MAX_LEN_LIMIT)]

\* Client::respond_len_limit::helper: the decision
has_accepted_ignoring_ongoing(req, range, request) == contains(range, request)
has_accepted_ignoring_range(req, range, request) == req = {}
has_accepted(req, range, request) == req = {} /\ contains(range, request)

\* ------------------------------------------------- the sink, as functions
\* A channel end is [queue, total_byte_len, wire, res]: the InnerSink, the
\* frames written to the base stream, and the result of the call in progress.
\* w says what the base stream does with the writes of the call: it takes the
\* first w.n frames whole, and the frame after them meets w.end:
\*   "Ok"       it is taken whole too, and so is every later one
\*   "Io"       a write returns an error
\*   "Pending"  write_all returns Poll::Pending with none of the frame's bytes taken
\*   "Partial"  write_all returns Poll::Pending with part of the frame's bytes taken
Completes == [n |-> 0, end |-> "Ok"]
Fails == [n |-> 0, end |-> "Io"]
Pends == [n |-> 0, end |-> "Pending"]
PendsPartWay == [n |-> 0, end |-> "Partial"]
After(w, k) == [w EXCEPT !.n = Max(0, w.n - k)]

\* What is on the wire of a frame whose write was left part-way
Fragment(message) == [message EXCEPT !.type = "Fragment"]

\* PlainChannel::send: pop the head, write it, then subtract its byte length.
\* A failed write returns through `?` before the subtraction; a pending one
\* leaves the future, which poll_ready and poll_flush drop with the popped
\* message in it.
send(ch, w) ==
    LET message == Head(ch.queue) IN
    IF w.end = "Ok" \/ w.n > 0
    THEN [ch EXCEPT !.queue = Tail(ch.queue),
                    !.wire = Append(ch.wire, message),
                    !.total_byte_len = ch.total_byte_len - byte_len(message),
                    !.res = "Ok"]
    ELSE [ch EXCEPT !.queue = Tail(ch.queue),
                    !.wire = IF w.end = "Partial"
                             THEN Append(ch.wire, Fragment(message)) ELSE ch.wire,
                    !.res = IF w.end = "Io" THEN "Io" ELSE "Pending"]

\* PlainChannel::inner_ready, with len_limit as read at its start
RECURSIVE inner_ready(_, _, _, _)
inner_ready(ch, ll, mult, w) ==
    IF ch.total_byte_len + ll > ll * mult
    THEN IF ch.queue = <<>>
         THEN [ch EXCEPT !.res = "Panic"]       \* pop_front().unwrap()
         ELSE LET c == send(ch, w) IN
              IF c.res = "Ok" THEN inner_ready(c, ll, mult, After(w, 1)) ELSE c
    ELSE [ch EXCEPT !.res = "Ok"]

\* Sink::start_send
start_send(ch, item) ==
    [ch EXCEPT !.total_byte_len = ch.total_byte_len + byte_len(item),
               !.queue = Append(ch.queue, item)]

\* PlainChannel::inner_flush
RECURSIVE inner_flush(_, _)
inner_flush(ch, w) ==
    IF ch.queue # <<>>
    THEN LET c == send(ch, w) IN
         IF c.res = "Ok" THEN inner_flush(c, After(w, 1)) ELSE c
    ELSE [ch EXCEPT !.res = "Ok"]

\* Sink::poll_ready and Sink::poll_flush, polled until they are Ready: each
\* poll runs a fresh inner_ready or inner_flush, and the poll after a Pending
\* one finds the base stream writable
ready(ch, ll, mult, w) ==
    LET r == inner_ready(ch, ll, mult, w) IN
    IF r.res = "Pending" THEN inner_ready(r, ll, mult, Completes) ELSE r
flush(ch, w) ==
    LET r == inner_flush(ch, w) IN
    IF r.res = "Pending" THEN inner_flush(r, Completes) ELSE r

\* What is left of w for the polls after one that took the channel from ch to r
Left(w, ch, r) == IF Len(r.queue) + w.n < Len(ch.queue) THEN Completes
                  ELSE After(w, Len(ch.queue) - Len(r.queue))

\* PlainChannel::send_msg = SinkExt::send, to its return: poll_ready,
\* start_send, poll_flush
send_msg(ch, message, ll, mult, w) ==
    LET r == ready(ch, ll, mult, w) IN
    IF r.res # "Ok" THEN r
    ELSE flush(start_send(r, message), Left(w, ch, r))

\* ------------------------------------------------------------- state
VARIABLES
    limit_multiplier,  \* InnerSink.limit_multiplier, the same on both channels
    len_limit,         \* [Peers -> Nat]: PlainChannel.len_limit
    queue,             \* [Peers -> Seq(Message)]: InnerSink.queue
    total_byte_len,    \* [Peers -> Nat]: InnerSink.total_byte_len
    wire,              \* [Peers -> Seq(Message)]: written by the peer, not yet read by the other
    conn,              \* [Peers -> BOOLEAN]: the peer's base stream accepts writes
    requested,         \* [Peers -> SUBSET Nat]: LenLimit.requested ({} is None)
    acceptable_range,  \* [Peers -> [lo, hi]]: LenLimit.acceptable_range
    cpc,               \* [Peers -> position of the Client's call in progress]
    dpc,               \* [Peers -> "run" | "panicked"]: the task sending Secure frames
    ret,               \* the Client call that returned in the last step, if one did
    cross,             \* history: [Peers -> the crossing exchange the peer is part of]
    used,              \* calls made and transport failures met so far
    spc,               \* [Tasks -> position of the task's SinkExt::send]
    lock,              \* the task inside inner_ready holding inner_sink, or "none"
    enq,               \* history: the frames start_send has enqueued, in order
    yielded,           \* history: the frames recv has returned, in order
    rpc,               \* [Receivers -> position of the task's PlainChannel::recv]
    stream_lock,       \* the task holding inner_stream's guard, or "none"
    state,             \* [Peers -> the Client's State, or Dropped once close has consumed the Client]
    hello,             \* history: the ServerHello handed to the last server_hello call, if any
    sealed,            \* [Peers -> Seq(Message)]: Secure frames sealed by the peer, not yet opened by the other
    sent,              \* history: [Peers -> the plaintexts the peer has sealed, in order]
    got,               \* history: [Peers -> the plaintexts the peer's open has returned, in order]
    opened,            \* history: the last call of open, its frame, key, nonce and result
    tampered,          \* history: [Peers -> frames of the peer altered or reordered in flight]
    write_buffer,      \* the secure layer's WriteBuffer: [buffer, index]
    emitted,           \* the chunks the WriteBuffer has handed to its sink, in order
    written,           \* history: the bytes handed to WriteBuffer::write, in order
    writes,            \* history: the calls of WriteBuffer::write made
    reader,            \* [Readers -> a ReadBuffer, the chunks it has taken and the bytes it has given]
    chunker,           \* what len_limit() returns to the WriteBuffer, the sink errors met, the last call
    codec,             \* the last plain message converted: the message, its Message, its header and what came back
    rx,                \* a PlainChannel polled as a Stream: the bytes to read, the stream's end, the items given
    ns                 \* one NonceSequence, the build it runs in, and the nonces it has given

securevars == << sealed, sent, got, opened, tampered >>
chunkvars == << write_buffer, emitted, written, writes, reader, chunker >>
codecvars == << codec, rx, ns >>
purevars == << securevars, chunkvars, codecvars >>
sessionvars == << state, hello, purevars >>
clientvars == << requested, acceptable_range, cpc, dpc, ret, cross, sessionvars >>
recvvars == << rpc, stream_lock >>
sinkvars == << spc, lock, enq, yielded, recvvars >>
vars == << limit_multiplier, len_limit, queue, total_byte_len, wire, conn,
           requested, acceptable_range, cpc, dpc, ret, cross, used, sinkvars,
           sessionvars >>

\* The tasks that send through the one channel in SinkSpec, and that channel's
\* end, which is also the one Client of SessionSpec
Tasks == {"t1", "t2"}
S == "client"
NoSend == [at |-> "idle", ll |-> 0, item |-> <<>>]
\* The tasks that receive from that channel at the other end
Receivers == {"r1", "r2"}

Idle == [at |-> "idle", op |-> "none", limit |-> 0]
\* ret.arg is the call's argument (a response's is 1 or 0), ret.set the limit
\* the call handed to set_len_limit (0: it did not call it)
NoRet == [peer |-> "none", op |-> "none", res |-> "none", arg |-> 0, set |-> 0]
NoCross == [st |-> "no", pre |-> 0, asked |-> 0]
NoOpen == [peer |-> "none", res |-> "none", plaintext |-> <<>>, frame |-> <<>>,
           key |-> <<>>, nonce |-> <<>>, counter |-> 0]
\* limit_multiplier as the channel's test constructs it
DEFAULT_MULTIPLIER == 2

\* ------------------------------------------------- the chunker's buffers
\* The two ReadBuffers: proto/secure/buffer.rs and proto/stream/buffer.rs
\* What a poll of the channel as a Stream has given, before any poll
NoPoll == [polled |-> FALSE, header_parsed |-> FALSE, cause |-> "none", item |-> "none"]

Readers == {"secure", "stream"}
\* WriteBuffer::new and ReadBuffer::new: buffer None (<<>>; Some(b) is << b >>)
\* and index 0.  Of a reader are kept besides: taken, the number of chunks it
\* has taken; out, the bytes it has given; reads, the reads asked of it; and
\* res, the result of the last one.
WriteBuffer_new == [buffer |-> <<>>, index |-> 0]
ReadBuffer_new == [buffer |-> <<>>, index |-> 0, taken |-> 0, out |-> <<>>, reads |-> 0,
                   res |-> "none"]

\* ------------------------------------------------- the session's State
\* State: Insecure | Handshaking { handshake_context, server_sig_pub_key } |
\* Secure(SecureChannel).  A field that the variant does not have is <<>>.
Insecure == [tag |-> "Insecure", handshake_context |-> <<>>, server_sig_pub_key |-> <<>>,
             secure |-> <<>>]
Handshaking(handshake_context, server_sig_pub_key) ==
    [tag |-> "Handshaking", handshake_context |-> << handshake_context >>,
     server_sig_pub_key |-> << server_sig_pub_key >>, secure |-> <<>>]
Secure(secure_channel) ==
    [tag |-> "Secure", handshake_context |-> <<>>, server_sig_pub_key |-> <<>>,
     secure |-> << secure_channel >>]

\* What is left of a Client that close(self) has consumed: nothing
Dropped == [tag |-> "Dropped", handshake_context |-> <<>>, server_sig_pub_key |-> <<>>,
            secure |-> <<>>]

\* State::default(), which Client::new and std::mem::take leave in self.state
State_default == Insecure

\* HandshakeContext { nonce, private_key }
HandshakeContext(nonce, private_key) == [nonce |-> nonce, private_key |-> private_key]

\* SecureChannel::new: the secrets, and both buffers empty (write_buffer is the
\* number of plaintext bytes buffered)
SecureChannel_new(session_secrets) ==
    [session_secrets |-> session_secrets, read_buffer |-> 0, write_buffer |-> 0]

\* Client::new over PlainChannel::new, on both sides, but for limit_multiplier
InitChannels ==
    /\ len_limit = [p \in Peers |-> MIN_LEN_LIMIT]
    /\ queue = [p \in Peers |-> <<>>]
    /\ total_byte_len = [p \in Peers |-> 0]
    /\ wire = [p \in Peers |-> <<>>]
    /\ conn = [p \in Peers |-> TRUE]
    /\ requested = [p \in Peers |-> {}]
    /\ acceptable_range = [p \in Peers |-> [lo |-> MIN_LEN_LIMIT, hi |-> MAX_LEN_LIMIT]]
    /\ cpc = [p \in Peers |-> Idle]
    /\ dpc = [p \in Peers |-> "run"]
    /\ ret = NoRet
    /\ cross = [p \in Peers |-> NoCross]
    /\ used = 0
    /\ spc = [t \in Tasks |-> NoSend]
    /\ lock = "none"
    /\ enq = <<>>
    /\ yielded = <<>>
    /\ rpc = [r \in Receivers |-> "idle"]
    /\ stream_lock = "none"
    /\ state = [p \in Peers |-> State_default]
    /\ hello = <<>>
    /\ sealed = [p \in Peers |-> <<>>]
    /\ sent = [p \in Peers |-> <<>>]
    /\ got = [p \in Peers |-> <<>>]
    /\ opened = NoOpen
    /\ tampered = [p \in Peers |-> 0]
    /\ write_buffer = WriteBuffer_new
    /\ emitted = <<>>
    /\ written = <<>>
    /\ writes = 0
    /\ reader = [r \in Readers |-> ReadBuffer_new]
    /\ chunker = [len_limit |-> MIN_LEN_LIMIT, sink_errors |-> 0,
                  last |-> [op |-> "none", res |-> "none"]]
    /\ codec = [done |-> FALSE]
    /\ rx = [input |-> <<>>, end |-> "open", arrived |-> 0, polls |-> 0, ended |-> FALSE,
             last |-> NoPoll]
    /\ ns = [started |-> FALSE]

Init == limit_multiplier = DEFAULT_MULTIPLIER /\ InitChannels

\* The channel end of peer p
End(p) == [queue |-> queue[p], total_byte_len |-> total_byte_len[p],
           wire |-> wire[p], res |-> "Ok"]

\* What the base stream of peer p may do with the writes of a call: a failed
\* transport stays failed, and a run meets failed and pending writes within its bound
WriteOutcomes(p) == IF ~conn[p] THEN {Fails}
                    ELSE IF used + 1 < MaxOps
                         THEN {Completes, Fails, Pends, PendsPartWay}
                         ELSE {Completes}

\* A failed or pending write of peer p costs one of the run's bound
Failed(p, w) == IF conn[p] /\ w # Completes THEN 1 ELSE 0

\* Peer p's channel after a call that ended as ch, peer q's wire being wq
PutEnds(p, ch, wq) ==
    /\ queue' = [queue EXCEPT ![p] = ch.queue]
    /\ total_byte_len' = [total_byte_len EXCEPT ![p] = ch.total_byte_len]
    /\ wire' = [wire EXCEPT ![p] = ch.wire, ![Other(p)] = wq]
    /\ conn' = [conn EXCEPT ![p] = conn[p] /\ ch.res # "Io"]

Returned(p, op, res, arg, set) ==
    ret' = [peer |-> p, op |-> op, res |-> res, arg |-> arg, set |-> set]

\* What a Client call that sent a message and got res does to its task
AfterSend(p, res) == IF res = "Panic" THEN [at |-> "panicked", op |-> "none", limit |-> 0]
                     ELSE Idle

\* Whether a request of peer q is still unread on its wire
RequestUnread(q) == \E i \in 1..Len(wire[q]) : wire[q][i].type = "AdjustLenLimitRequest"

\* ------------------------------------------------- the Client's calls
\* A Client is borrowed mutably by each call: one call at a time per peer.
ClientFree(p) == cpc[p].at = "idle"

\* Client::request_len_limit's checks before it sends anything
request_check_no_ongoing(req, limit) ==
    IF ~ValidLimit(limit) THEN "InvalidLimit" ELSE "Ok"
request_check(req, limit) ==
    IF req # {} THEN "OngoingRequest"
    ELSE IF ~ValidLimit(limit) THEN "InvalidLimit"
    ELSE "Ok"

\* Client::request_len_limit::helper: what `requested` is after the call
requested_after_request(req, limit, res) == IF res = "Ok" THEN {limit} ELSE req

request_len_limit(p, limit) ==
    /\ ClientFree(p)
    /\ used < MaxOps
    /\ LET chk == request_check(requested[p], limit) IN
       IF chk # "Ok"
       THEN /\ Returned(p, "request_len_limit", chk, limit, 0)
            /\ used' = used + 1
            /\ UNCHANGED << sinkvars, sessionvars, limit_multiplier, len_limit, queue, total_byte_len, wire,
                            conn, requested, acceptable_range, cpc, dpc, cross >>
       ELSE \E w \in WriteOutcomes(p) :
            LET ch == send_msg(End(p), RequestMessage(limit), len_limit[p],
                               limit_multiplier, w)
                q == Other(p)
            IN
            /\ PutEnds(p, ch, wire[q])
            /\ requested' = [requested EXCEPT
                                ![p] = requested_after_request(requested[p], limit, ch.res)]
            /\ cpc' = [cpc EXCEPT ![p] = AfterSend(p, ch.res)]
            /\ Returned(p, "request_len_limit", ch.res, limit, 0)
            /\ cross' = IF ch.res # "Ok" THEN cross
                        ELSE IF requested[q] # {} /\ RequestUnread(q)
                        THEN [r \in Peers |->
                                [st |-> "open", pre |-> len_limit[r],
                                 asked |-> IF r = p THEN limit
                                           ELSE CHOOSE l \in requested[r] : TRUE]]
                        ELSE [cross EXCEPT ![p] = NoCross]
            /\ used' = used + 1 + Failed(p, w)
            /\ UNCHANGED << sinkvars, sessionvars, limit_multiplier, len_limit, acceptable_range, dpc >>

\* Client::respond_len_limit: whether set_len_limit is called after the helper
\* (`if let Ok(Some(len_limit)) = helper_result`)
respond_applies(res, accepted) == res = "Ok" /\ accepted

\* Where the Client stands once the helper's send_msg has returned
SuspendedAtSet(op, limit) == [at |-> "set", op |-> op, limit |-> limit]

\* Client::respond_len_limit up to the call of set_len_limit, for the request
\* at the head of the other peer's wire
respond_len_limit(p) ==
    LET q == Other(p)
        request == RequestLimit(Head(wire[q]))
        accepted == has_accepted(requested[p], acceptable_range[p], request)
    IN
    /\ ClientFree(p)
    /\ wire[q] # <<>>
    /\ Head(wire[q]).type = "AdjustLenLimitRequest"
    /\ \E w \in WriteOutcomes(p) :
       LET ch == send_msg(End(p), ResponseMessage(accepted), len_limit[p],
                          limit_multiplier, w) IN
       /\ PutEnds(p, ch, Tail(wire[q]))
       /\ IF respond_applies(ch.res, accepted)
          THEN /\ cpc' = [cpc EXCEPT ![p] = SuspendedAtSet("respond_len_limit", request)]
               /\ ret' = NoRet
               /\ cross' = [cross EXCEPT ![p] = NoCross]
          ELSE /\ cpc' = [cpc EXCEPT ![p] = AfterSend(p, ch.res)]
               /\ Returned(p, "respond_len_limit", ch.res, request, 0)
               /\ UNCHANGED cross
       /\ used' = used + Failed(p, w)
       /\ UNCHANGED << sinkvars, sessionvars, limit_multiplier, len_limit, requested, acceptable_range, dpc >>

\* Client::request_len_limit_responded: `requested.take()` and what follows
responded_keeps_request(req, accepted) ==
    [res |-> IF req # {} THEN "Ok" ELSE "NoOngoingRequest",
     requested |-> IF accepted THEN {} ELSE req,
     apply |-> IF req # {} /\ accepted THEN req ELSE {}]
responded_applies_always(req, accepted) ==
    [res |-> IF req # {} THEN "Ok" ELSE "NoOngoingRequest",
     requested |-> {},
     apply |-> req]
responded(req, accepted) ==
    [res |-> IF req # {} THEN "Ok" ELSE "NoOngoingRequest",
     requested |-> {},
     apply |-> IF req # {} /\ accepted THEN req ELSE {}]

\* Client::request_len_limit_responded up to the call of set_len_limit
responded_with(p, response) ==
    LET r == responded(requested[p], response_has_accepted(response)) IN
    /\ requested' = [requested EXCEPT ![p] = r.requested]
    /\ IF r.apply # {}
       THEN /\ cpc' = [cpc EXCEPT ![p] = SuspendedAtSet("request_len_limit_responded",
                                                        CHOOSE l \in r.apply : TRUE)]
            /\ ret' = NoRet
       ELSE /\ UNCHANGED cpc
            /\ Returned(p, "request_len_limit_responded", r.res,
                        IF response_has_accepted(response) THEN 1 ELSE 0, 0)
    /\ cross' = [cross EXCEPT ![p].st = IF @ = "open" THEN "done" ELSE @]

\* The response at the head of the other peer's wire is handed to the Client
request_len_limit_responded(p) ==
    LET q == Other(p) IN
    /\ ClientFree(p)
    /\ wire[q] # <<>>
    /\ Head(wire[q]).type = "AdjustLenLimitResponse"
    /\ responded_with(p, Head(wire[q]))
    /\ wire' = [wire EXCEPT ![q] = Tail(wire[q])]
    /\ UNCHANGED << sinkvars, sessionvars, limit_multiplier, len_limit, queue, total_byte_len, conn,
                    acceptable_range, dpc, used >>

\* A response handed to a Client that has no request outstanding (a late or
\* duplicated response)
stray_response(p, b) ==
    /\ ClientFree(p)
    /\ requested[p] = {}
    /\ used < MaxOps
    /\ responded_with(p, ResponseMessage(b))
    /\ used' = used + 1
    /\ UNCHANGED << sinkvars, sessionvars, limit_multiplier, len_limit, queue, total_byte_len, wire, conn,
                    acceptable_range, dpc >>

\* PlainChannel::set_len_limit, called by the suspended Client call, which then returns
set_len_limit(p) ==
    /\ cpc[p].at = "set"
    /\ len_limit' = [len_limit EXCEPT ![p] = set_len_limit_value(cpc[p].limit)]
    /\ cpc' = [cpc EXCEPT ![p] = Idle]
    /\ Returned(p, cpc[p].op, "Ok",
                IF cpc[p].op = "respond_len_limit" THEN cpc[p].limit ELSE 1, cpc[p].limit)
    /\ UNCHANGED << sinkvars, sessionvars, limit_multiplier, queue, total_byte_len, wire, conn, requested,
                    acceptable_range, dpc, cross, used >>

\* Client::adjust_acceptable_len_limit_range
adjust_acceptable_len_limit_range(p, r) ==
    /\ ClientFree(p)
    /\ used < MaxOps
    /\ acceptable_range' = [acceptable_range EXCEPT ![p] = adjust_range(r)]
    /\ used' = used + 1
    /\ ret' = NoRet
    /\ UNCHANGED << sinkvars, sessionvars, limit_multiplier, len_limit, queue, total_byte_len, wire, conn,
                    requested, cpc, dpc, cross >>

\* ------------------------------------------------------ Secure frames
\* The largest payload a sender that respects its own current limit sends
max_frame_len(ll) == ll

\* Another task of peer p sends one Secure frame through the same channel
\* (send_msg); the frame is as large as the peer's current limit allows.
send_secure(p) ==
    /\ dpc[p] = "run"
    /\ used < MaxOps
    /\ \E w \in WriteOutcomes(p) :
       LET ch == send_msg(End(p), SecureFrame(max_frame_len(len_limit[p]), 0), len_limit[p],
                          limit_multiplier, w) IN
       /\ PutEnds(p, ch, wire[Other(p)])
       /\ dpc' = [dpc EXCEPT ![p] = IF ch.res = "Panic" THEN "panicked" ELSE "run"]
       /\ used' = used + 1 + Failed(p, w)
       /\ ret' = NoRet
       /\ UNCHANGED << sinkvars, sessionvars, limit_multiplier, len_limit, requested, acceptable_range, cpc,
                       cross >>

\* PlainChannel::recv_msg yields the Secure frame at the head of the other peer's wire
recv_secure(p) ==
    LET q == Other(p) IN
    /\ ClientFree(p)
    /\ wire[q] # <<>>
    /\ Head(wire[q]).type = "Secure"
    /\ wire' = [wire EXCEPT ![q] = Tail(wire[q])]
    /\ ret' = NoRet
    /\ UNCHANGED << sinkvars, sessionvars, limit_multiplier, len_limit, queue, total_byte_len, conn, requested,
                    acceptable_range, cpc, dpc, cross, used >>

Next ==
    \/ \E p \in Peers, l \in ReqLimits : request_len_limit(p, l)
    \/ \E p \in Peers : respond_len_limit(p)
    \/ \E p \in Peers : request_len_limit_responded(p)
    \/ \E p \in Peers, b \in BOOLEAN : stray_response(p, b)
    \/ \E p \in Peers : set_len_limit(p)
    \/ \E p \in Peers, r \in RangeInputs : adjust_acceptable_len_limit_range(p, r)
    \/ \E p \in Peers : send_secure(p)
    \/ \E p \in Peers : recv_secure(p)

Spec == Init /\ [][Next]_vars

\* ------------------------------------------------- the handshake's crypto
\* Nonces and X25519 private keys the system's random source gives, the
\* signing key the client was given for its server, and the keys that sign
NONCE_LEN == 16
X25519_PUBLIC_KEY_LEN == 32
CLIENT_HELLO_MSG_LEN == NONCE_LEN + X25519_PUBLIC_KEY_LEN
Nonces == {1, 2}
PrivateKeys == {1, 2}
SigKeys == {"server"}
Signers == {"server", "other"}
\* The public keys a ServerHello carries: 0 is one that the key agreement rejects
ServerPublicKeys == {0, 200}
ServerNonces == {7}

\* EphemeralPrivateKey::compute_public_key: one public key for each private key
compute_public_key(private_key) == private_key + 100

\* crypto::generate_nonce and crypto::generate_ephemeral_key_pair, as one
\* outcome: the values, and which of the two calls returns Err, if one does
RandomOutcomes == [nonce : Nonces, private_key : PrivateKeys, error : {"no", "nonce", "key"}]

\* ClientHelloMessage, DowngradeMessage and DisconnectMessage, Into<Message>
ClientHelloMessage(nonce, public_key_bytes) ==
    [type |-> "ClientHello", length |-> CLIENT_HELLO_MSG_LEN,
     payload |-> << nonce, public_key_bytes >>]
DowngradeMessage == Message("Downgrade", <<>>)
DisconnectMessage == Message("Disconnect", <<>>)

\* ServerHelloMessage { nonce, public_key_bytes, signature }: a signature is
\* kept as the key that made it and the content that was signed
SignedContents == { << cn, sn, pk >> : cn \in Nonces, sn \in ServerNonces \cup {8},
                                       pk \in ServerPublicKeys }
ServerHellos ==
    { [nonce |-> sn, public_key_bytes |-> pk, signature |-> [by |-> k, over |-> c]] :
      sn \in ServerNonces, pk \in ServerPublicKeys, k \in Signers, c \in SignedContents }

\* verify_server_hello, were the client's nonce left out of what is verified
verify_server_hello_any_client_nonce(msg, client_nonce, server_sig_pub_key) ==
    [res |-> IF /\ msg.signature.by = server_sig_pub_key
                /\ msg.signature.over[2] = msg.nonce
                /\ msg.signature.over[3] = msg.public_key_bytes
             THEN "Ok" ELSE "BadServerHelloSignature",
     server_public_key |-> msg.public_key_bytes,
     nonces |-> << client_nonce, msg.nonce >>]

\* crypto::verify_server_hello: the signed content is
\* client_nonce || server_nonce || server_public_key
verify_server_hello(msg, client_nonce, server_sig_pub_key) ==
    LET message == << client_nonce, msg.nonce, msg.public_key_bytes >> IN
    [res |-> IF msg.signature.by = server_sig_pub_key /\ msg.signature.over = message
             THEN "Ok" ELSE "BadServerHelloSignature",
     server_public_key |-> msg.public_key_bytes,
     nonces |-> << client_nonce, msg.nonce >>]

\* agreement::agree_ephemeral over X25519: both sides reach the same key
\* material, own private key times the private key of the other's public key
agree_ephemeral(own_private_key, other_public_key) ==
    own_private_key * (other_public_key - 100)

\* crypto::generate_pseudorandom_key: HKDF-extract of the key material, salted
\* with the nonces
generate_pseudorandom_key(own_private_key, other_public_key, nonces) ==
    << agree_ephemeral(own_private_key, other_public_key), nonces >>

\* crypto::generate_master_key: HKDF-expand of the prk under the sender's label
generate_master_key(prk, sender) == << prk, sender >>

\* digest::digest(&digest::SHA256, nonces): 32 bytes that stand for the digest,
\* different for different pairs of the nonces used here
SHA256_OUTPUT_LEN == 32
digest_SHA256(nonces) ==
    [i \in 1..SHA256_OUTPUT_LEN |-> (37 * nonces[1] + 101 * nonces[2] + 7 * i * i + 11) % 256]

\* crypto::generate_nonce_base: the first aead::NONCE_LEN bytes of the digest
AEAD_NONCE_LEN == 12
generate_nonce_base(nonces) == SubSeq(digest_SHA256(nonces), 1, AEAD_NONCE_LEN)

\* The counter of a NonceSequence is a u64; it is kept at CounterBits bits
CounterBits == 3
CounterMod == 2 ^ CounterBits
U64_BYTES == 8

\* a ^ b on bytes
RECURSIVE BitXor(_, _)
BitXor(a, b) == IF a = 0 THEN b
                ELSE IF b = 0 THEN a
                ELSE ((a + b) % 2) + 2 * BitXor(a \div 2, b \div 2)

\* u64::to_be_bytes
RECURSIVE ShiftRightBytes(_, _)
ShiftRightBytes(v, k) == IF k = 0 THEN v ELSE ShiftRightBytes(v \div 256, k - 1)
u64_to_be_bytes(v) == [i \in 1..U64_BYTES |-> ShiftRightBytes(v, U64_BYTES - i) % 256]

\* NonceSequence::xor: nonce[i + (NONCE_LEN - 8)] ^= byte, for the counter's bytes
xor_from_start(base, counter) ==
    [i \in 1..AEAD_NONCE_LEN |->
        IF i > U64_BYTES THEN base[i] ELSE BitXor(base[i], u64_to_be_bytes(counter)[i])]
xor(base, counter) ==
    [i \in 1..AEAD_NONCE_LEN |->
        IF i <= AEAD_NONCE_LEN - U64_BYTES THEN base[i]
        ELSE BitXor(base[i], u64_to_be_bytes(counter)[i - (AEAD_NONCE_LEN - U64_BYTES)])]

\* NonceSequence::new, and NonceSequence::advance: the nonce is base xor counter,
\* then `self.counter += 1`, which overflows at the counter's width: overflow
\* says so, and seq is then the sequence of a build that wraps
NonceSequence_new(base) == [base |-> base, counter |-> 0]
advance(seq) == [nonce |-> xor(seq.base, seq.counter),
                 seq |-> [seq EXCEPT !.counter = (@ + 1) % CounterMod],
                 overflow |-> seq.counter + 1 = CounterMod]

\* SessionSecrets::new: both keys are bound to a nonce sequence on nonce_base
SessionSecrets_new(pseudorandom_key, sealing_key, opening_key, nonce_base) ==
    [pseudorandom_key |-> pseudorandom_key,
     sealing_key |-> [key |-> sealing_key, nonce_sequence |-> NonceSequence_new(nonce_base)],
     opening_key |-> [key |-> opening_key, nonce_sequence |-> NonceSequence_new(nonce_base)]]

\* crypto::generate_session_secrets: (send_side_bytes, recv_side_bytes)
side_bytes_one_label(own_side) == << "client", "server" >>
side_bytes(own_side) == IF own_side = "Client" THEN << "client", "server" >>
                        ELSE << "server", "client" >>

\* crypto::generate_session_secrets: agree_ephemeral fails for a bad peer
\* public key
generate_session_secrets(own_private_key, other_public_key, nonces, own_side) ==
    LET prk == generate_pseudorandom_key(own_private_key, other_public_key, nonces)
        send_key == generate_master_key(prk, side_bytes(own_side)[1])
        recv_key == generate_master_key(prk, side_bytes(own_side)[2])
        nonce_base == generate_nonce_base(nonces)
    IN
    IF other_public_key = 0
    THEN [res |-> "BadServerPublicKey", session_secrets |-> <<>>]
    ELSE [res |-> "Ok",
          session_secrets |-> SessionSecrets_new(prk, send_key, recv_key, nonce_base)]

\* AES-128-GCM, as what it guarantees: a ciphertext is the plaintext under a
\* key and a nonce, a tag authenticates a ciphertext under a key and a nonce;
\* x counts the bits altered since
Encrypt(key, nonce, plaintext) == [k |-> key, n |-> nonce, of |-> plaintext, x |-> 0]
Tag(key, nonce, ciphertext) == [k |-> key, n |-> nonce, over |-> ciphertext, x |-> 0]

\* SessionSecrets::seal: the sealing key's sequence gives the nonce, the tag
\* goes behind the ciphertext, and the frame is a Secure Message
seal(secrets, payload) ==
    LET a == advance(secrets.sealing_key.nonce_sequence)
        ciphertext == Encrypt(secrets.sealing_key.key, a.nonce, payload)
    IN
    [secrets |-> [secrets EXCEPT !.sealing_key.nonce_sequence = a.seq],
     message |-> Message("Secure",
                         << ciphertext, Tag(secrets.sealing_key.key, a.nonce, ciphertext) >>)]

\* SessionSecrets::open: OpeningKey::open_in_place advances the opening key's
\* sequence, then authenticates; its error becomes CryptoError::Unspecified
open(secrets, message) ==
    LET a == advance(secrets.opening_key.nonce_sequence)
        key == secrets.opening_key.key
        authentic == message.payload[2] = Tag(key, a.nonce, message.payload[1])
    IN
    [secrets |-> [secrets EXCEPT !.opening_key.nonce_sequence = a.seq],
     res |-> IF authentic THEN "Ok" ELSE "Unspecified",
     plaintext |-> IF authentic THEN << message.payload[1].of >> ELSE <<>>,
     key |-> key, nonce |-> a.nonce]

\* ------------------------------------------------- the session's calls
\* The Client exists: close(self) has not consumed it
Alive(p) == state[p].tag # "Dropped"

\* Client::client_hello: what self.state is after the async block
state_after_client_hello(st, res, handshake_context, server_sig_pub_key) ==
    IF res = "Ok" THEN Handshaking(handshake_context, server_sig_pub_key) ELSE st

\* Client::client_hello
client_hello(p, server_sig_pub_key, rnd) ==
    /\ Alive(p) /\ ClientFree(p)
    /\ used < MaxCalls
    /\ IF state[p].tag # "Insecure"
       THEN /\ Returned(p, "client_hello", "None", 0, 0)
            /\ used' = used + 1
            /\ UNCHANGED << sinkvars, sessionvars, limit_multiplier, len_limit, queue,
                            total_byte_len, wire, conn, requested, acceptable_range, cpc,
                            dpc, cross >>
       ELSE IF rnd.error # "no"
       THEN /\ Returned(p, "client_hello", "Crypto", 0, 0)
            /\ used' = used + 1
            /\ UNCHANGED << sinkvars, sessionvars, limit_multiplier, len_limit, queue,
                            total_byte_len, wire, conn, requested, acceptable_range, cpc,
                            dpc, cross >>
       ELSE \E w \in WriteOutcomes(p) :
            LET client_hello_msg == ClientHelloMessage(rnd.nonce,
                                                       compute_public_key(rnd.private_key))
                ch == send_msg(End(p), client_hello_msg, len_limit[p], limit_multiplier, w)
            IN
            /\ PutEnds(p, ch, wire[Other(p)])
            /\ state' = [state EXCEPT ![p] =
                           state_after_client_hello(state[p], ch.res,
                               HandshakeContext(rnd.nonce, rnd.private_key),
                               server_sig_pub_key)]
            /\ cpc' = [cpc EXCEPT ![p] = AfterSend(p, ch.res)]
            /\ Returned(p, "client_hello", ch.res, 0, 0)
            /\ used' = used + 1 + Failed(p, w)
            /\ UNCHANGED << sinkvars, hello, purevars, limit_multiplier, len_limit, requested,
                            acceptable_range, dpc, cross >>

\* std::mem::take(&mut self.state): what it leaves in self.state
taken_left_in_place(st) == st
mem_take_keeps_context(st) ==
    [State_default EXCEPT !.handshake_context = st.handshake_context]
mem_take(st) == State_default

\* Client::server_hello, the arm for the other states: `self.state = state`
put_back_forgotten(st, taken) == st
put_back(st, taken) == taken

\* Client::server_hello
server_hello(p, server_hello_msg) ==
    LET taken == state[p]
        left == mem_take(state[p])
    IN
    /\ Alive(p) /\ ClientFree(p)
    /\ used < MaxCalls
    /\ IF taken.tag = "Handshaking"
       THEN LET handshake_context == taken.handshake_context[1]
                v == verify_server_hello(server_hello_msg, handshake_context.nonce,
                                         taken.server_sig_pub_key[1])
                g == generate_session_secrets(handshake_context.private_key,
                                              v.server_public_key, v.nonces, "Client")
                res == IF v.res # "Ok" THEN v.res ELSE g.res
            IN
            /\ state' = [state EXCEPT ![p] =
                           IF res = "Ok" THEN Secure(SecureChannel_new(g.session_secrets))
                           ELSE left]
            /\ Returned(p, "server_hello", res, 0, 0)
       ELSE /\ state' = [state EXCEPT ![p] = put_back(left, taken)]
            /\ Returned(p, "server_hello", "None", 0, 0)
    /\ hello' = << server_hello_msg >>
    /\ used' = used + 1
    /\ UNCHANGED << sinkvars, purevars, limit_multiplier, len_limit, queue, total_byte_len, wire, conn,
                    requested, acceptable_range, cpc, dpc, cross >>

\* Client::downgrade: what self.state is after the call (nothing is assigned)
state_after_downgrade(st, res) == st

\* Client::downgrade
downgrade(p) ==
    /\ Alive(p) /\ ClientFree(p)
    /\ used < MaxCalls
    /\ IF state[p].tag = "Secure"
       THEN \E w \in WriteOutcomes(p) :
            LET ch == send_msg(End(p), DowngradeMessage, len_limit[p], limit_multiplier, w) IN
            /\ PutEnds(p, ch, wire[Other(p)])
            /\ state' = [state EXCEPT ![p] = state_after_downgrade(state[p], ch.res)]
            /\ cpc' = [cpc EXCEPT ![p] = AfterSend(p, ch.res)]
            /\ Returned(p, "downgrade", ch.res, 0, 0)
            /\ used' = used + 1 + Failed(p, w)
            /\ UNCHANGED << sinkvars, hello, purevars, limit_multiplier, len_limit, requested,
                            acceptable_range, dpc, cross >>
       ELSE /\ Returned(p, "downgrade", "None", 0, 0)
            /\ used' = used + 1
            /\ UNCHANGED << sinkvars, sessionvars, limit_multiplier, len_limit, queue,
                            total_byte_len, wire, conn, requested, acceptable_range, cpc,
                            dpc, cross >>

\* Client::close(self): whatever the state, and the Client is consumed
close(p) ==
    /\ Alive(p) /\ ClientFree(p)
    /\ used < MaxCalls
    /\ \E w \in WriteOutcomes(p) :
       LET ch == send_msg(End(p), DisconnectMessage, len_limit[p], limit_multiplier, w) IN
       /\ PutEnds(p, ch, wire[Other(p)])
       /\ state' = [state EXCEPT ![p] = Dropped]
       /\ Returned(p, "close", ch.res, 0, 0)
       /\ used' = used + 1 + Failed(p, w)
       /\ UNCHANGED << sinkvars, hello, purevars, limit_multiplier, len_limit, requested,
                       acceptable_range, cpc, dpc, cross >>

\* ------------------------------------------- the sink, poll by poll
\* The limits set_len_limit is called with in SinkSpec: two inside
\* [MIN_LEN_LIMIT, MAX_LEN_LIMIT], one below it and one above it
SinkLimits == {0, MIN_LEN_LIMIT, 4096, MAX_LEN_LIMIT + 1}

\* The frames a task hands to the sink: a Secure frame as large as the limit
\* allows, one a byte larger, or a control frame of one byte (as test_sink's);
\* id tags the frame
Items(id) == { SecureFrame(max_frame_len(len_limit[S]), id),
               SecureFrame(max_frame_len(len_limit[S]) + 1, id),
               Message("AdjustLenLimitResponse", << id >>) }

\* What the base stream may do with the writes of one poll
SinkWrites == IF ~conn[S] THEN {Fails}
              ELSE {Completes} \cup
                   { [n |-> k, end |-> e] : k \in 0..(Len(queue[S]) - 1),
                                            e \in {"Io", "Pending", "Partial"} }

\* Where SinkExt::send stands after a poll of the sink that ended as res:
\* Ready(Ok) goes on (to `next`), Pending polls the same call again, an error ends the send
AfterPoll(sp, res, next) ==
    CASE res = "Ok"      -> IF next = "idle" THEN NoSend ELSE [sp EXCEPT !.at = next]
      [] res = "Pending" -> [sp EXCEPT !.at = IF next = "start" THEN "ready" ELSE "flush"]
      [] res = "Io"      -> NoSend
      [] res = "Panic"   -> [at |-> "panicked", ll |-> 0, item |-> <<>>]

\* Sink::poll_ready, first part: a task begins SinkExt::send, or polls again;
\* inner_ready takes inner_sink's lock and reads len_limit
poll_ready_lock(t) ==
    /\ lock = "none"
    /\ \/ /\ spc[t].at = "idle"
          /\ used < MaxFrames
          /\ \E item \in Items(used + 1) :
                spc' = [spc EXCEPT ![t] = [at |-> "locked", ll |-> len_limit[S],
                                           item |-> << item >>]]
          /\ used' = used + 1
       \/ /\ spc[t].at = "ready"
          /\ spc' = [spc EXCEPT ![t].at = "locked", ![t].ll = len_limit[S]]
          /\ UNCHANGED used
    /\ lock' = t
    /\ UNCHANGED << clientvars, recvvars, limit_multiplier, len_limit, queue, total_byte_len,
                    wire, conn, enq, yielded >>

\* Sink::poll_ready, second part: inner_ready's loop, to the end of the poll
poll_ready(t) ==
    /\ spc[t].at = "locked"
    /\ \E w \in SinkWrites :
       LET ch == inner_ready(End(S), spc[t].ll, limit_multiplier, w) IN
       /\ PutEnds(S, ch, wire[Other(S)])
       /\ spc' = [spc EXCEPT ![t] = AfterPoll(spc[t], ch.res, "start")]
    /\ lock' = "none"
    /\ UNCHANGED << clientvars, recvvars, limit_multiplier, len_limit, used, enq, yielded >>

\* Sink::start_send (block_on the lock).  The item is enqueued as it is:
\* send_check is not called here, nor anywhere else.
Sink_start_send(t) ==
    /\ spc[t].at = "start"
    /\ lock = "none"
    /\ PutEnds(S, start_send(End(S), spc[t].item[1]), wire[Other(S)])
    /\ enq' = Append(enq, spc[t].item[1])
    /\ spc' = [spc EXCEPT ![t].at = "flush"]
    /\ UNCHANGED << clientvars, recvvars, limit_multiplier, len_limit, used, lock, yielded >>

\* Sink::poll_flush: inner_flush, to the end of the poll
poll_flush(t) ==
    /\ spc[t].at = "flush"
    /\ lock = "none"
    /\ \E w \in SinkWrites :
       LET ch == inner_flush(End(S), w) IN
       /\ PutEnds(S, ch, wire[Other(S)])
       /\ spc' = [spc EXCEPT ![t] = AfterPoll(spc[t], ch.res, "idle")]
    /\ UNCHANGED << clientvars, recvvars, limit_multiplier, len_limit, used, lock, enq, yielded >>

\* PlainChannel::set_len_limit, called whatever the senders are doing
PlainChannel_set_len_limit(n) ==
    /\ len_limit' = [len_limit EXCEPT ![S] = set_len_limit_value(n)]
    /\ len_limit'[S] # len_limit[S]
    /\ UNCHANGED << clientvars, sinkvars, limit_multiplier, queue, total_byte_len,
                    wire, conn, used >>

\* PlainChannel::recv at the other end, statement by statement.
\* `self.inner_stream.lock().await;` takes inner_stream's guard as a temporary,
\* which is dropped at the end of that statement: who holds it afterwards
guard_after_lock_statement(r) == "none"

\* Whether a receiver has read the header of the frame at the head of the wire
\* and not yet its payload
HeaderTaken == \E r \in Receivers : rpc[r] = "payload"

\* PlainChannel::recv, the lock statement
recv_lock(r) ==
    /\ rpc[r] = "idle"
    /\ stream_lock = "none"
    /\ stream_lock' = guard_after_lock_statement(r)
    /\ rpc' = [rpc EXCEPT ![r] = "header"]
    /\ UNCHANGED << clientvars, limit_multiplier, len_limit, queue, total_byte_len,
                    wire, conn, used, spc, lock, enq, yielded >>

\* PlainChannel::recv, read_exact of the header and Message::raw.  The four
\* bytes read are a header only if no other task stands between the header and
\* the payload of the frame at the head; else they are bytes of that frame's
\* payload, the frame is left part-way and this task has lost the framing.
recv_header(r) ==
    /\ rpc[r] = "header"
    /\ wire[S] # <<>>
    /\ Head(wire[S]).type # "Fragment"
    /\ IF HeaderTaken
       THEN /\ rpc' = [rpc EXCEPT ![r] = "misframed"]
            /\ wire' = [wire EXCEPT ![S] = << Fragment(Head(wire[S])) >> \o Tail(wire[S])]
       ELSE /\ rpc' = [rpc EXCEPT ![r] = "payload"]
            /\ UNCHANGED wire
    /\ UNCHANGED << clientvars, limit_multiplier, len_limit, queue, total_byte_len,
                    conn, used, spc, lock, enq, yielded, stream_lock >>

\* PlainChannel::recv, read_exact of the payload and the return of the frame
recv(r) ==
    /\ rpc[r] = "payload"
    /\ IF Head(wire[S]).type = "Fragment"
       THEN /\ rpc' = [rpc EXCEPT ![r] = "misframed"]
            /\ UNCHANGED << wire, yielded >>
       ELSE /\ rpc' = [rpc EXCEPT ![r] = "idle"]
            /\ yielded' = Append(yielded, Head(wire[S]))
            /\ wire' = [wire EXCEPT ![S] = Tail(wire[S])]
    /\ UNCHANGED << clientvars, limit_multiplier, len_limit, queue, total_byte_len,
                    conn, used, spc, lock, enq, stream_lock >>

SinkInit == limit_multiplier \in 1..MaxMultiplier /\ InitChannels

SinkNext ==
    \/ \E t \in Tasks : poll_ready_lock(t)
    \/ \E t \in Tasks : poll_ready(t)
    \/ \E t \in Tasks : Sink_start_send(t)
    \/ \E t \in Tasks : poll_flush(t)
    \/ \E n \in SinkLimits : PlainChannel_set_len_limit(n)
    \/ \E r \in Receivers : recv_lock(r)
    \/ \E r \in Receivers : recv_header(r)
    \/ \E r \in Receivers : recv(r)

SinkSpec == SinkInit /\ [][SinkNext]_vars

\* ------------------------------------------- the session, call by call
\* A call of the Client's request_len_limit, while the Client exists
Client_request_len_limit(p, limit) ==
    /\ Alive(p)
    /\ used < MaxCalls
    /\ request_len_limit(p, limit)

SessionNext ==
    \/ \E k \in SigKeys, rnd \in RandomOutcomes : client_hello(S, k, rnd)
    \/ \E m \in ServerHellos : server_hello(S, m)
    \/ downgrade(S)
    \/ close(S)
    \/ \E l \in ReqLimits : Client_request_len_limit(S, l)
    \/ \E n \in SinkLimits : PlainChannel_set_len_limit(n)

SessionSpec == Init /\ [][SessionNext]_vars

\* ------------------------------------------- the secure layer, frame by frame
\* The plaintexts sealed, and the private key and nonce of the server
Plaintexts == {1, 2}
ServerPrivateKeys == {100}

\* The session secrets of peer p
SecretsOf(p) == state[p].secure[1].session_secrets

\* Both sides have finished the handshake on the same nonces and each other's
\* public key: the client as Client::server_hello does, the server with Side::Server
established(client_nonce, server_nonce, client_key, server_key) ==
    LET nonces == << client_nonce, server_nonce >>
        c == generate_session_secrets(client_key, compute_public_key(server_key),
                                      nonces, "Client")
        sv == generate_session_secrets(server_key, compute_public_key(client_key),
                                       nonces, "Server")
    IN
    /\ \A p \in Peers : state[p].tag = "Insecure"
    /\ state' = [p \in Peers |->
                    Secure(SecureChannel_new(IF p = "client" THEN c.session_secrets
                                             ELSE sv.session_secrets))]
    /\ UNCHANGED << sinkvars, hello, purevars, limit_multiplier, len_limit, queue,
                    total_byte_len, wire, conn, requested, acceptable_range, cpc, dpc, ret,
                    cross, used >>

\* SessionSecrets::seal by peer p; the frame goes to the other peer
Secure_seal(p, payload) ==
    /\ state[p].tag = "Secure"
    /\ Len(sent["client"]) + Len(sent["server"]) < MaxSeals
    /\ LET r == seal(SecretsOf(p), payload) IN
       /\ state' = [state EXCEPT ![p].secure[1].session_secrets = r.secrets]
       /\ sealed' = [sealed EXCEPT ![p] = Append(@, r.message)]
    /\ sent' = [sent EXCEPT ![p] = Append(@, payload)]
    /\ UNCHANGED << sinkvars, hello, codecvars, chunkvars, got, opened, tampered, limit_multiplier, len_limit,
                    queue, total_byte_len, wire, conn, requested, acceptable_range, cpc, dpc,
                    ret, cross, used >>

\* SessionSecrets::open by peer p, of the next frame that reached it.  It
\* changes the opening key and nothing else of the session.
Secure_open(p) ==
    LET q == Other(p) IN
    /\ state[p].tag = "Secure"
    /\ sealed[q] # <<>>
    /\ LET r == open(SecretsOf(p), Head(sealed[q])) IN
       /\ state' = [state EXCEPT ![p].secure[1].session_secrets = r.secrets]
       /\ got' = [got EXCEPT ![p] = @ \o r.plaintext]
       /\ opened' = [peer |-> p, res |-> r.res, plaintext |-> r.plaintext,
                     frame |-> << Head(sealed[q]) >>, key |-> r.key, nonce |-> r.nonce,
                     counter |-> SecretsOf(p).opening_key.nonce_sequence.counter]
    /\ sealed' = [sealed EXCEPT ![q] = Tail(@)]
    /\ UNCHANGED << sinkvars, hello, codecvars, chunkvars, sent, tampered, limit_multiplier, len_limit, queue,
                    total_byte_len, wire, conn, requested, acceptable_range, cpc, dpc, ret,
                    cross, used >>

\* In flight, a bit of the ciphertext (part 1) or of the tag (part 2) of peer
\* q's next frame is altered
alter(q, part) ==
    /\ tampered["client"] + tampered["server"] < MaxTampers
    /\ sealed[q] # <<>>
    /\ sealed' = [sealed EXCEPT ![q][1].payload[part].x = 1]
    /\ tampered' = [tampered EXCEPT ![q] = @ + 1]
    /\ UNCHANGED << sinkvars, state, hello, codecvars, chunkvars, sent, got, opened, limit_multiplier, len_limit,
                    queue, total_byte_len, wire, conn, requested, acceptable_range, cpc, dpc,
                    ret, cross, used >>

\* In flight, peer q's next two frames change places
reorder(q) ==
    /\ tampered["client"] + tampered["server"] < MaxTampers
    /\ Len(sealed[q]) >= 2
    /\ sealed' = [sealed EXCEPT ![q] = << @[2], @[1] >> \o Tail(Tail(@))]
    /\ tampered' = [tampered EXCEPT ![q] = @ + 1]
    /\ UNCHANGED << sinkvars, state, hello, codecvars, chunkvars, sent, got, opened, limit_multiplier, len_limit,
                    queue, total_byte_len, wire, conn, requested, acceptable_range, cpc, dpc,
                    ret, cross, used >>

SecureNext ==
    \/ \E cn \in Nonces, sn \in ServerNonces, kc \in PrivateKeys, ks \in ServerPrivateKeys :
          established(cn, sn, kc, ks)
    \/ \E p \in Peers, payload \in Plaintexts : Secure_seal(p, payload)
    \/ \E p \in Peers : Secure_open(p)
    \/ \E q \in Peers, part \in {1, 2} : alter(q, part)
    \/ \E q \in Peers : reorder(q)

SecureSpec == Init /\ [][SecureNext]_vars

\* ------------------------------------------- the chunker, call by call
\* The limits len_limit() returns, the lengths written and the lengths read:
\* a chunk at the minimum limit holds MIN_LEN_LIMIT - TAG_LEN = 1007 bytes
ChunkLimits == {MIN_LEN_LIMIT, MIN_LEN_LIMIT + 1}
WriteLens == {1, MIN_LEN_LIMIT - TAG_LEN, MIN_LEN_LIMIT - TAG_LEN + 1}
ReadLens == {1, MIN_LEN_LIMIT - TAG_LEN, MIN_LEN_LIMIT - TAG_LEN + 1}

\* A byte of the tag region once the chunk was sealed, and vec![0; n]
TagByte == 0 - 1
Zeros(n) == [i \in 1..n |-> 0]

\* buffer[at..at + bytes.len()].copy_from_slice(bytes)
copy_from_slice(buffer, at, bytes) ==
    SubSeq(buffer, 1, at) \o bytes \o SubSeq(buffer, at + Len(bytes) + 1, Len(buffer))

\* WriteBuffer::write, the loop: out is what the sink has taken, and the
\* fail_at-th call of the sink in this write returns an error (none if 0).
\* `sink(self.buffer.take().unwrap()).await?` returns on the error with the
\* buffer taken and the two assignments after it not made.  buffer_len -
\* self.index overflows if the index is beyond the buffer's room, which the
\* limits used here do not reach: Panic stands for it.
RECURSIVE write_loop(_, _, _, _, _, _)
write_loop(wb, source, remaining, limit, out, fail_at) ==
    IF remaining = 0 THEN [wb |-> wb, out |-> out, res |-> "Ok"]
    ELSE LET buffer == IF wb.buffer = <<>> THEN Zeros(limit) ELSE wb.buffer[1]
             buffer_len == Len(buffer) - TAG_LEN
             src_index == Len(source) - remaining
         IN
         IF buffer_len < wb.index
         THEN [wb |-> [wb EXCEPT !.buffer = << buffer >>], out |-> out, res |-> "Panic"]
         ELSE IF remaining < buffer_len - wb.index
         THEN [wb |-> [buffer |-> << copy_from_slice(buffer, wb.index,
                                        SubSeq(source, src_index + 1, Len(source))) >>,
                       index |-> wb.index + remaining],
               out |-> out, res |-> "Ok"]
         ELSE LET copy_len == buffer_len - wb.index IN
              IF fail_at = Len(out) + 1
              THEN [wb |-> [buffer |-> <<>>, index |-> wb.index], out |-> out, res |-> "Err"]
              ELSE write_loop(WriteBuffer_new, source, remaining - copy_len, limit,
                              Append(out, copy_from_slice(buffer, wb.index,
                                         SubSeq(source, src_index + 1, src_index + copy_len))),
                              fail_at)

\* WriteBuffer::write, and WriteBuffer::flush, whose sink call fails or not:
\* flush takes the buffer and resets the index before it calls the sink
WriteBuffer_write(wb, source, limit, fail_at) ==
    write_loop(wb, source, Len(source), limit, <<>>, fail_at)
WriteBuffer_flush(wb, fails) ==
    IF wb.buffer # <<>>
    THEN [wb |-> WriteBuffer_new,
          out |-> IF fails THEN <<>> ELSE << SubSeq(wb.buffer[1], 1, wb.index + TAG_LEN) >>,
          res |-> IF fails THEN "Err" ELSE "Ok"]
    ELSE [wb |-> wb, out |-> <<>>, res |-> "Ok"]

\* A chunk as it reaches a reader: seal has put the tag in its last TAG_LEN
\* bytes, and open gives the payload back whole
sealed_and_opened(chunk) ==
    SubSeq(chunk, 1, Len(chunk) - TAG_LEN) \o [i \in 1..TAG_LEN |-> TagByte]

\* proto/secure/buffer.rs, ReadBuffer::fill and ReadBuffer::read
ReadBuffer_fill(rb, source) == [rb EXCEPT !.buffer = << source >>, !.index = 0,
                                          !.taken = @ + 1]
ReadBuffer_read(rb, dst_len) ==
    LET buffer == rb.buffer[1]
        buffer_len == Len(buffer) - TAG_LEN
    IN
    IF dst_len < buffer_len - rb.index
    THEN [rb EXCEPT !.out = @ \o SubSeq(buffer, rb.index + 1, rb.index + dst_len),
                    !.index = @ + dst_len, !.res = "Ok"]
    ELSE [rb EXCEPT !.out = @ \o SubSeq(buffer, rb.index + 1, buffer_len),
                    !.buffer = <<>>, !.index = 0, !.res = "Ok"]

\* proto/stream/buffer.rs, ReadBuffer::read: source() waits for the next chunk
\* ("Blocked" while there is none); buffer_len - self.index below zero is a
\* panic, as is the slice it would give
RECURSIVE stream_read(_, _, _)
stream_read(rb, chunks, remaining) ==
    IF remaining = 0 THEN [rb EXCEPT !.res = "Ok"]
    ELSE IF rb.buffer = <<>> /\ rb.taken >= Len(chunks) THEN [rb EXCEPT !.res = "Blocked"]
    ELSE LET filled == IF rb.buffer = <<>>
                       THEN [rb EXCEPT !.buffer = << sealed_and_opened(chunks[rb.taken + 1]) >>,
                                       !.taken = @ + 1]
                       ELSE rb
             buffer == filled.buffer[1]
             buffer_len == Len(buffer) - TAG_LEN
         IN
         IF remaining < Len(buffer) - filled.index
         THEN [filled EXCEPT
                  !.out = @ \o SubSeq(buffer, filled.index + 1, filled.index + remaining),
                  !.index = @ + remaining, !.res = "Ok"]
         ELSE IF buffer_len < filled.index THEN [filled EXCEPT !.res = "Panic"]
         ELSE stream_read([filled EXCEPT
                              !.out = @ \o SubSeq(buffer, filled.index + 1, buffer_len),
                              !.buffer = <<>>, !.index = 0],
                          chunks, remaining - (buffer_len - filled.index))

\* The length limit changes: len_limit() returns the new one from now on
Chunk_set_len_limit(limit) ==
    /\ limit # chunker.len_limit
    /\ chunker' = [chunker EXCEPT !.len_limit = limit,
                                  !.last = [op |-> "set_len_limit", res |-> "Ok"]]
    /\ UNCHANGED << sinkvars, state, hello, codecvars, securevars, write_buffer, emitted,
                    written, writes, reader, limit_multiplier, len_limit, queue,
                    total_byte_len, wire, conn, requested, acceptable_range, cpc, dpc, ret,
                    cross, used >>

\* A call of WriteBuffer::write with the next n bytes of the stream, in which
\* the sink takes every chunk or refuses the fail_at-th
Chunk_write(n, fail_at) ==
    /\ writes < MaxWrites
    /\ LET source == [i \in 1..n |-> Len(written) + i]
           r == WriteBuffer_write(write_buffer, source, chunker.len_limit, fail_at)
       IN
       /\ fail_at # 0 => r.res = "Err" /\ chunker.sink_errors < MaxSinkErrors
       /\ write_buffer' = r.wb
       /\ emitted' = emitted \o r.out
       /\ written' = written \o source
       /\ chunker' = [chunker EXCEPT !.sink_errors = @ + (IF r.res = "Err" THEN 1 ELSE 0),
                                     !.last = [op |-> "write", res |-> r.res]]
    /\ writes' = writes + 1
    /\ UNCHANGED << sinkvars, state, hello, codecvars, securevars, reader, limit_multiplier,
                    len_limit, queue, total_byte_len, wire, conn, requested, acceptable_range,
                    cpc, dpc, ret, cross, used >>

\* A call of WriteBuffer::flush, in which the sink takes the chunk or refuses it
Chunk_flush(fails) ==
    /\ fails => write_buffer.buffer # <<>> /\ chunker.sink_errors < MaxSinkErrors
    /\ LET r == WriteBuffer_flush(write_buffer, fails) IN
       /\ write_buffer' = r.wb
       /\ emitted' = emitted \o r.out
       /\ chunker' = [chunker EXCEPT !.sink_errors = @ + (IF r.res = "Err" THEN 1 ELSE 0),
                                     !.last = [op |-> "flush", res |-> r.res]]
    /\ UNCHANGED << sinkvars, state, hello, codecvars, securevars, written, writes, reader,
                    limit_multiplier, len_limit, queue, total_byte_len, wire, conn, requested,
                    acceptable_range, cpc, dpc, ret, cross, used >>

\* The secure ReadBuffer is asked for n bytes: it is filled with the next
\* chunk if it is empty, and read
Read_secure(n) ==
    LET rb == reader["secure"] IN
    /\ rb.reads < MaxReads
    /\ rb.buffer # <<>> \/ rb.taken < Len(emitted)
    /\ reader' = [reader EXCEPT !["secure"] =
                     [ReadBuffer_read(IF rb.buffer # <<>> THEN rb
                                      ELSE ReadBuffer_fill(rb,
                                              sealed_and_opened(emitted[rb.taken + 1])),
                                      n)
                      EXCEPT !.reads = @ + 1]]
    /\ UNCHANGED << sinkvars, state, hello, codecvars, securevars, write_buffer, emitted,
                    written, writes, chunker, limit_multiplier, len_limit, queue, total_byte_len, wire, conn, requested,
                    acceptable_range, cpc, dpc, ret, cross, used >>

\* The stream ReadBuffer is asked for n bytes, and the call returns
Read_stream(n) ==
    LET rb == reader["stream"]
        r == stream_read(rb, emitted, n)
    IN
    /\ rb.reads < MaxReads
    /\ rb.res # "Panic"
    /\ r.res # "Blocked"
    /\ reader' = [reader EXCEPT !["stream"] = [r EXCEPT !.reads = @ + 1]]
    /\ UNCHANGED << sinkvars, state, hello, codecvars, securevars, write_buffer, emitted,
                    written, writes, chunker, limit_multiplier, len_limit, queue, total_byte_len, wire, conn, requested,
                    acceptable_range, cpc, dpc, ret, cross, used >>

ChunkNext ==
    \/ \E limit \in ChunkLimits : Chunk_set_len_limit(limit)
    \/ \E n \in WriteLens, fail_at \in 0..2 : Chunk_write(n, fail_at)
    \/ \E fails \in BOOLEAN : Chunk_flush(fails)
    \/ \E n \in ReadLens : Read_secure(n)
    \/ \E n \in ReadLens : Read_stream(n)

ChunkSpec == Init /\ [][ChunkNext]_vars

\* ------------------------------------------- the plain messages' conversions
MSG_HEADER_LEN == 4
ED25519_SIGNATURE_LEN == 64
CURRENT_PROTOCOL_VERSION == 1

\* PlainMessageType as u8, and PlainMessageType::try_from(u8)
PlainMessageTypes == {"Secure", "ClientHello", "ServerHello", "Disconnect", "Downgrade",
                      "AdjustLenLimitRequest", "AdjustLenLimitResponse"}
type_code(t) == CASE t = "Secure" -> 0
                  [] t = "ClientHello" -> 1
                  [] t = "ServerHello" -> 2
                  [] t = "Disconnect" -> 3
                  [] t = "Downgrade" -> 4
                  [] t = "AdjustLenLimitRequest" -> 16
                  [] t = "AdjustLenLimitResponse" -> 17
type_of_code(c) == IF \E t \in PlainMessageTypes : type_code(t) = c
                   THEN << CHOOSE t \in PlainMessageTypes : type_code(t) = c >>
                   ELSE <<>>

\* The field lengths each plain_msg! is given, in order
FieldLens(t) == CASE t = "ClientHello" -> << NONCE_LEN, X25519_PUBLIC_KEY_LEN >>
                  [] t = "ServerHello" -> << NONCE_LEN, X25519_PUBLIC_KEY_LEN,
                                             ED25519_SIGNATURE_LEN >>
                  [] t = "Disconnect" -> <<>>
                  [] t = "Downgrade" -> <<>>
                  [] t = "AdjustLenLimitRequest" -> << 2 >>
                  [] t = "AdjustLenLimitResponse" -> << 1 >>
RECURSIVE Sum(_)
Sum(q) == IF q = <<>> THEN 0 ELSE Head(q) + Sum(Tail(q))

\* Byte arrays of n bytes: all one byte, or a ramp from it
ByteArrays(n) == { [i \in 1..n |-> (b + d * i) % 256] : b \in {0, 7, 255}, d \in {0, 1} }
RECURSIVE FieldTuples(_)
FieldTuples(lens) ==
    IF lens = <<>> THEN { <<>> }
    ELSE { << f >> \o rest : f \in ByteArrays(Head(lens)), rest \in FieldTuples(Tail(lens)) }
\* The well-formed plain messages of each frame type
PlainMessages ==
    UNION { { [type |-> t, fields |-> f] : f \in FieldTuples(FieldLens(t)) } :
            t \in PlainMessageTypes \ {"Secure"} }

\* plain_to_msg_helper!: len += field_len; msg[len - field_len..len] = field
RECURSIVE plain_to_msg_helper(_, _, _)
plain_to_msg_helper(payload, len, fields) ==
    IF fields = <<>> THEN payload
    ELSE LET field_len == Len(Head(fields)) IN
         plain_to_msg_helper(copy_from_slice(payload, len, Head(fields)), len + field_len,
                             Tail(fields))

\* plain_msg!: From<$message> for Message
plain_to_msg_unfilled(m) == Message(m.type, Zeros(Sum(FieldLens(m.type))))
plain_to_msg(m) ==
    Message(m.type, plain_to_msg_helper(Zeros(Sum(FieldLens(m.type))), 0, m.fields))

\* plain_from_msg_helper!: len += field_len; field = bytes[len - field_len..len]
RECURSIVE plain_from_msg_helper(_, _, _)
plain_from_msg_helper(bytes, len, lens) ==
    IF lens = <<>> THEN <<>>
    ELSE << SubSeq(bytes, len + 1, len + Head(lens)) >>
         \o plain_from_msg_helper(bytes, len + Head(lens), Tail(lens))

\* plain_msg!: TryFrom<Message> for $message, $message being of type t.  Only
\* the payload's length is looked at.
plain_from_msg(t, message) ==
    IF Len(message.payload) # Sum(FieldLens(t))
    THEN [res |-> "PayloadLengthMismatch", m |-> <<>>]
    ELSE [res |-> "Ok",
          m |-> << [type |-> t,
                    fields |-> plain_from_msg_helper(message.payload, 0, FieldLens(t))] >>]

\* From<MessageHeader> for [u8; MSG_HEADER_LEN], of message.header()
header_bytes(message) ==
    << type_code(message.type), CURRENT_PROTOCOL_VERSION >> \o to_be_bytes(message.length)

\* TryFrom<&[u8; MSG_HEADER_LEN]> for MessageHeader
MessageHeader_try_from(value) ==
    IF type_of_code(value[1]) = <<>> THEN [res |-> "MessageType", header |-> <<>>]
    ELSE IF value[2] # CURRENT_PROTOCOL_VERSION
    THEN [res |-> "ProtocolVersion", header |-> <<>>]
    ELSE [res |-> "Ok",
          header |-> << [plain_msg_type |-> type_of_code(value[1])[1], version |-> value[2],
                         length |-> from_be_bytes(<< value[3], value[4] >>)] >>]

\* Message::raw: the header parsed, and a payload of header.length zeros
Message_raw(header) ==
    LET h == MessageHeader_try_from(header) IN
    IF h.res # "Ok" THEN [res |-> h.res, message |-> <<>>]
    ELSE [res |-> "Ok",
          message |-> << [type |-> h.header[1].plain_msg_type, length |-> h.header[1].length,
                          payload |-> Zeros(h.header[1].length)] >>]

\* A plain message is turned into a Message, and that Message back; and its
\* header and payload bytes are turned into a Message as recv does, and back
convert(m) ==
    LET message == plain_to_msg(m)
        header == header_bytes(message)
        raw == Message_raw(header)
        received == IF raw.res # "Ok" THEN <<>>
                    ELSE << [raw.message[1] EXCEPT
                               !.payload = SubSeq(message.payload, 1, raw.message[1].length)] >>
    IN
    /\ codec' = [done |-> TRUE, m |-> m, message |-> message, header |-> header,
                 back |-> plain_from_msg(m.type, message),
                 received |-> received,
                 received_back |-> IF received = <<>> THEN [res |-> raw.res, m |-> <<>>]
                                   ELSE plain_from_msg(m.type, received[1])]
    /\ UNCHANGED << sinkvars, state, hello, securevars, chunkvars, rx, ns, limit_multiplier,
                    len_limit, queue, total_byte_len, wire, conn, requested, acceptable_range,
                    cpc, dpc, ret, cross, used >>

CodecNext == \E m \in PlainMessages : convert(m)

CodecSpec == Init /\ [][CodecNext]_vars

\* ------------------------------------------- the channel polled as a Stream
\* Frames a peer may put on the base stream, as bytes: headers that parse, of
\* payload length 0 and 2, a header of an unknown type code and one of an
\* unknown protocol version, each followed by its payload
InboundFrames ==
    { << c, v, 0, n >> \o [i \in 1..n |-> 9] :
      c \in {type_code("Secure"), type_code("Disconnect"), 5},
      v \in {CURRENT_PROTOCOL_VERSION, 0}, n \in {0, 2} }

\* read_exact of n bytes from the base stream
read_exact(input, end, n) ==
    IF Len(input) >= n
    THEN [res |-> "Ok", bytes |-> SubSeq(input, 1, n), rest |-> SubSeq(input, n + 1, Len(input))]
    ELSE [res |-> IF end = "open" THEN "Pending"
                  ELSE IF end = "eof" THEN "UnexpectedEof" ELSE "ConnectionReset",
          bytes |-> input, rest |-> <<>>]

\* PlainChannel::recv, polled once: what it returns and what it leaves unread
PlainChannel_recv(input, end) ==
    LET head == read_exact(input, end, MSG_HEADER_LEN)
        raw == Message_raw(head.bytes)
        body == read_exact(head.rest, end, raw.message[1].length)
    IN
    IF head.res = "Pending" THEN [poll |-> "Pending", header_parsed |-> FALSE, rest |-> head.rest]
    ELSE IF head.res # "Ok"
    THEN [poll |-> "Err", error |-> "IONetwork", header_parsed |-> FALSE, rest |-> head.rest,
          cause |-> IF end = "eof" THEN "truncated" ELSE "io"]
    ELSE IF raw.res # "Ok"
    THEN [poll |-> "Err", error |-> "MessageParsing", header_parsed |-> FALSE,
          rest |-> head.rest, cause |-> "header"]
    ELSE IF body.res = "Pending"
    THEN [poll |-> "Pending", header_parsed |-> TRUE, rest |-> body.rest]
    ELSE IF body.res # "Ok"
    THEN [poll |-> "Err", error |-> "IONetwork", header_parsed |-> TRUE, rest |-> body.rest,
          cause |-> IF end = "eof" THEN "truncated" ELSE "io"]
    ELSE [poll |-> "Ok", header_parsed |-> TRUE, rest |-> body.rest]

\* Stream::poll_next: the item for what recv returned
item_of_error(error) == IF error = "MessageParsing" THEN "SomeErr" ELSE "None"

\* PlainChannel::recv_msg: `next().await.unwrap()` for the item the stream gave
recv_msg(item) ==
    CASE item = "SomeOk" -> "Ok"
      [] item = "SomeErr" -> "Err"
      [] item = "None" -> "Panic"
      [] OTHER -> "Pending"

\* Stream::poll_next for &PlainChannel: a new recv is polled once and dropped
poll_next ==
    LET r == PlainChannel_recv(rx.input, rx.end) IN
    /\ rx.polls < MaxPolls
    /\ ~rx.ended
    /\ rx' = [rx EXCEPT
                !.polls = @ + 1,
                !.input = r.rest,
                !.ended = r.poll = "Err" /\ item_of_error(r.error) = "None",
                !.last = [polled |-> TRUE, header_parsed |-> r.header_parsed,
                          cause |-> IF r.poll = "Err" THEN r.cause ELSE "none",
                          item |-> CASE r.poll = "Pending" -> "Pending"
                                     [] r.poll = "Ok" -> "SomeOk"
                                     [] r.poll = "Err" -> item_of_error(r.error)]]
    /\ UNCHANGED << sinkvars, state, hello, securevars, chunkvars, codec, ns, limit_multiplier,
                    len_limit, queue, total_byte_len, wire, conn, requested, acceptable_range,
                    cpc, dpc, ret, cross, used >>

\* The peer's bytes reach the base stream: the first k bytes of a frame
arrive(frame, k) ==
    /\ rx.arrived < MaxArrivals
    /\ rx.end = "open"
    /\ k \in 1..Len(frame)
    /\ rx' = [rx EXCEPT !.arrived = @ + 1, !.input = @ \o SubSeq(frame, 1, k)]
    /\ UNCHANGED << sinkvars, state, hello, securevars, chunkvars, codec, ns, limit_multiplier,
                    len_limit, queue, total_byte_len, wire, conn, requested, acceptable_range,
                    cpc, dpc, ret, cross, used >>

\* The peer closes the connection
hang_up ==
    /\ rx.end = "open"
    /\ rx' = [rx EXCEPT !.end = "eof"]
    /\ UNCHANGED << sinkvars, state, hello, securevars, chunkvars, codec, ns, limit_multiplier,
                    len_limit, queue, total_byte_len, wire, conn, requested, acceptable_range,
                    cpc, dpc, ret, cross, used >>

\* The connection fails
io_error ==
    /\ rx.end = "open"
    /\ rx' = [rx EXCEPT !.end = "reset"]
    /\ UNCHANGED << sinkvars, state, hello, securevars, chunkvars, codec, ns, limit_multiplier,
                    len_limit, queue, total_byte_len, wire, conn, requested, acceptable_range,
                    cpc, dpc, ret, cross, used >>

StreamNext ==
    \/ \E frame \in InboundFrames : \E k \in {2, MSG_HEADER_LEN, 5, 6} : arrive(frame, k)
    \/ hang_up
    \/ io_error
    \/ poll_next

StreamSpec == Init /\ [][StreamNext]_vars

\* ------------------------------------------- one nonce sequence, call by call
\* The bases: those of the handshakes above, and bases of one byte or a ramp
NonceBases == { generate_nonce_base(<< cn, sn >>) : cn \in Nonces, sn \in ServerNonces }
              \cup ByteArrays(AEAD_NONCE_LEN)

\* NonceSequence::new, in a build with or without overflow checks
Nonce_new(base, overflow_checks) ==
    /\ ~ns.started
    /\ ns' = [started |-> TRUE, overflow_checks |-> overflow_checks,
              seq |-> NonceSequence_new(base), emitted |-> <<>>, panicked |-> FALSE]
    /\ UNCHANGED << sinkvars, state, hello, securevars, chunkvars, codec, rx, limit_multiplier,
                    len_limit, queue, total_byte_len, wire, conn, requested, acceptable_range,
                    cpc, dpc, ret, cross, used >>

\* NonceSequence::advance.  `self.counter += 1` on the last value of the
\* counter panics in a build with overflow checks, before the nonce is
\* returned, and wraps to 0 in a build without.
Nonce_advance ==
    LET a == advance(ns.seq) IN
    /\ ns.started /\ ~ns.panicked
    /\ Len(ns.emitted) < MaxAdvances
    /\ ns' = IF a.overflow /\ ns.overflow_checks
             THEN [ns EXCEPT !.panicked = TRUE]
             ELSE [ns EXCEPT !.seq = a.seq, !.emitted = Append(@, a.nonce)]
    /\ UNCHANGED << sinkvars, state, hello, securevars, chunkvars, codec, rx, limit_multiplier,
                    len_limit, queue, total_byte_len, wire, conn, requested, acceptable_range,
                    cpc, dpc, ret, cross, used >>

NonceNext ==
    \/ \E base \in NonceBases, overflow_checks \in BOOLEAN : Nonce_new(base, overflow_checks)
    \/ Nonce_advance

NonceSpec == Init /\ [][NonceNext]_vars

\* ------------------------------------------------------------ claims
\* Steps of Spec, told from the state before and the state after
RespondStep(p) ==      \* peer p's Client takes the request at the head of the wire
    /\ wire[Other(p)] # <<>>
    /\ Head(wire[Other(p)]).type = "AdjustLenLimitRequest"
    /\ wire'[Other(p)] = Tail(wire[Other(p)])
ResponseStep(p) ==     \* peer p's Client takes the response at the head of the wire
    /\ wire[Other(p)] # <<>>
    /\ Head(wire[Other(p)]).type = "AdjustLenLimitResponse"
    /\ wire'[Other(p)] = Tail(wire[Other(p)])
ApplyStep(p) == cpc[p].at = "set" /\ cpc'[p].at = "idle"
Sent(p, b) ==          \* peer p has written the response b, whole
    wire'[p] = Append(wire[p], ResponseMessage(b))
Replied(p, b) ==       \* peer p has written the response b, whole or part-way
    Sent(p, b) \/ wire'[p] = Append(wire[p], Fragment(ResponseMessage(b)))
InFlight(p) == { wire[p][i] : i \in 1..Len(wire[p]) } \cup { queue[p][i] : i \in 1..Len(queue[p]) }
Count(w, t) == Cardinality({ i \in 1..Len(w) : w[i].type = t })

\* What C1 says of a state, and of a step, of a crossing exchange
C1_CrossState ==
    \A p \in Peers :
        /\ cross[p].st # "no" => len_limit[p] = cross[p].pre
        /\ cross[p].st = "open" => requested[p] # {} /\ cpc[p].at # "set"
C1_CrossSteps ==
    \A p \in Peers : cross[p].st = "open" =>
        /\ RespondStep(p) => /\ wire'[p] # wire[p] => Replied(p, FALSE)
                             /\ cpc'[p].at # "set"
        /\ ResponseStep(p) => /\ ~response_has_accepted(Head(wire[Other(p)]))
                              /\ requested'[p] = {}
                              /\ cross'[p].st = "done"
                              /\ len_limit'[p] = cross[p].pre
Asked(p) == CHOOSE l \in requested[Other(p)] : TRUE
EntersSet(p) == cpc[p].at # "set" /\ cpc'[p].at = "set"

C2_Steps ==
    \A p \in Peers :
        \* the limit changes only where a call reaches set_len_limit(new_limit)
        /\ len_limit'[p] # len_limit[p] => ApplyStep(p)
        /\ ApplyStep(p) => len_limit'[p] = cpc[p].limit
        \* the responder: set_len_limit only after accepted=true has been sent
        /\ (EntersSet(p) /\ cpc'[p].op = "respond_len_limit")
           => /\ RespondStep(p) /\ cpc'[p].limit = Asked(p)
              /\ requested[p] = {} /\ contains(acceptable_range[p], Asked(p))
              /\ Sent(p, TRUE)
              /\ len_limit'[p] = len_limit[p]
        \* the requester: set_len_limit when it processes the accepting response
        /\ (EntersSet(p) /\ cpc'[p].op = "request_len_limit_responded")
           => /\ ResponseStep(p)
              /\ response_has_accepted(Head(wire[Other(p)]))
              /\ requested[p] = {cpc'[p].limit}
        /\ (ResponseStep(p) /\ response_has_accepted(Head(wire[Other(p)])))
           => EntersSet(p) /\ len_limit'[p] = len_limit[p]
C2_BothOnceProcessed ==
    (ret.op = "request_len_limit_responded" /\ ret.set # 0)
        => \A p \in Peers : len_limit[p] = ret.set
\* C2 (accepted request), as stated.  A responder goes on to
\* set_len_limit(new_limit) only from a respond_len_limit that had no request
\* of its own outstanding, took a request inside its range and has sent
\* accepted=true; the requester goes on to set_len_limit(new_limit) only from
\* processing an accepting response; no limit changes anywhere else; and once
\* the requester has processed the accepting response, both peers' current
\* limit is new_limit.
C2_AcceptedRequest == [][C2_Steps /\ C2_BothOnceProcessed']_vars

\* C3 (frames after an accepted change), as stated, second part: a Secure frame
\* that a peer writes after it has sent its accepting response, or after it has
\* taken an accepting response, is no larger than the new limit.
C3_FramesAfterAccept ==
    [][ \A p \in Peers :
          ( /\ cpc[p].at = "set"
            /\ Len(wire'[p]) = Len(wire[p]) + 1
            /\ wire'[p][Len(wire'[p])].type = "Secure" )
          => wire'[p][Len(wire'[p])].length <= cpc[p].limit ]_vars
\* C3, first part: when a peer applies an accepted limit, no frame in flight in
\* either direction is larger than the limit it held until then.
C3_InFlightAtApply ==
    [][ \A p \in Peers : ApplyStep(p) =>
          \A q \in Peers : \A f \in InFlight(q) : f.length <= len_limit[p] ]_vars

C4_Steps ==
    \A p \in Peers :
        /\ (RespondStep(p) /\ Replied(p, FALSE))
           => /\ cpc'[p].at # "set" /\ len_limit' = len_limit
              /\ ret'.op = "respond_len_limit" /\ ret'.set = 0
        /\ (ResponseStep(p) /\ ~response_has_accepted(Head(wire[Other(p)])))
           => /\ cpc'[p].at # "set" /\ len_limit' = len_limit
              /\ ret'.op = "request_len_limit_responded" /\ ret'.set = 0
        /\ (ret'.op = "request_len_limit_responded" /\ ret'.peer = p /\ ret'.arg = 0)
           => cpc'[p].at # "set" /\ len_limit' = len_limit /\ ret'.set = 0
\* C4 (accepted=false).  A responder that replies accepted=false does not go on
\* to set_len_limit, and a requester that processes a response saying false
\* does not either: in both steps every limit stays as it was.
C4_RejectedNoChange == [][C4_Steps]_vars
\* A request rejected for its range (no crossing) has been processed by the requester.
C4_Witness ==
    /\ ret.op = "request_len_limit_responded" /\ ret.res = "Ok" /\ ret.arg = 0
    /\ cross[ret.peer].st = "no"
    /\ ~contains(acceptable_range[Other(ret.peer)], 4096)
    /\ \A p \in Peers : len_limit[p] = MIN_LEN_LIMIT /\ requested[p] = {}

Outstanding(p) == Count(wire[p], "AdjustLenLimitRequest")
                  + Count(wire[Other(p)], "AdjustLenLimitResponse")
C6_Steps ==
    \A p \in Peers : (ret'.op = "request_len_limit" /\ ret'.peer = p) =>
        /\ requested[p] # {} => ret'.res = "OngoingRequest"
        /\ (requested[p] = {} /\ ~(MIN_LEN_LIMIT <= ret'.arg /\ ret'.arg <= MAX_LEN_LIMIT))
           => ret'.res = "InvalidLimit"
        /\ ret'.res \in {"OngoingRequest", "InvalidLimit"}
           => /\ requested[p] # {} \/ ret'.arg < MIN_LEN_LIMIT \/ ret'.arg > MAX_LEN_LIMIT
              /\ UNCHANGED << wire, queue, total_byte_len, requested, len_limit, conn, cpc >>
C6_OneOutstanding ==
    \A p \in Peers : /\ Outstanding(p) <= 1
                     /\ requested[p] = {} => Outstanding(p) = 0
\* C6 (local failures).  A request_len_limit call returns OngoingRequest while a
\* request is outstanding and InvalidLimit for a limit outside [1023, 32767];
\* such a call writes and enqueues nothing and leaves requested and the limits
\* as they were.  So a peer never has more than one request unanswered.
C6_LocalFailure == [][C6_Steps /\ C6_OneOutstanding']_vars
\* A second, valid and different, request has been refused while the first is unread.
C6_Witness ==
    /\ ret.op = "request_len_limit" /\ ret.res = "OngoingRequest"
    /\ ValidLimit(ret.arg) /\ requested[ret.peer] # {ret.arg}
    /\ Outstanding(ret.peer) = 1

C7_Steps ==
    \A p \in Peers :
        /\ ResponseStep(p) => requested[p] # {} /\ requested'[p] = {}
        /\ (ret'.op = "request_len_limit_responded" /\ ret'.peer = p /\ ~ApplyStep(p))
           => /\ ret'.res = "NoOngoingRequest" <=> requested[p] = {}
              /\ requested'[p] = {}
              /\ ret'.res = "NoOngoingRequest"
                 => UNCHANGED << requested, len_limit, cpc, wire, queue, total_byte_len >>
        /\ (ret'.op = "request_len_limit" /\ ret'.peer = p /\ requested[p] = {})
           => ret'.res # "OngoingRequest"
\* C7 (responses).  request_len_limit_responded leaves no request outstanding,
\* whatever the response says, and a request_len_limit made with none
\* outstanding is not refused as OngoingRequest; with no request outstanding
\* the call returns NoOngoingRequest and changes neither requested nor any
\* limit, even for a response that says accepted.
C7_ResponseClears == [][C7_Steps]_vars
\* A response saying accepted has met a Client with no request outstanding.
C7_Witness ==
    /\ ret.op = "request_len_limit_responded" /\ ret.res = "NoOngoingRequest"
    /\ ret.arg = 1 /\ ret.set = 0
    /\ \A p \in Peers : len_limit[p] = MIN_LEN_LIMIT
\* Steps and states of SinkSpec
PollReadyStep(t) == spc[t].at = "locked" /\ spc'[t].at # "locked"
Popped == SubSeq(queue[S], 1, Len(queue[S]) - Len(queue'[S]))
NoFailure == conn[S] /\ \A t \in Tasks : spc[t].at # "panicked"

\* C8 (back-pressure), as stated.  A poll_ready that returns Ready(Ok) does so
\* with total_byte_len + current_limit <= limit_multiplier * current_limit;
\* while that does not hold it writes the head frame of the queue: every frame
\* it takes off the queue is written to the wire, in order, and there is a head
\* to take (it does not panic).
C8_BackPressure ==
    [][ \A t \in Tasks : PollReadyStep(t) =>
          /\ spc'[t].at = "start"
             => total_byte_len'[S] + len_limit'[S] <= limit_multiplier * len_limit'[S]
          /\ conn'[S] => wire'[S] = wire[S] \o Popped
          /\ spc'[t].at # "panicked" ]_vars

\* C9 (the sink's invariant), as stated: total_byte_len <= limit_multiplier * len_limit.
C9_BufferedBound == total_byte_len[S] <= limit_multiplier * len_limit[S]

\* C10 (ordering), as stated.  While the transport has not failed, the frames
\* received, then those on the wire, then those queued are the frames enqueued,
\* each once and in the order of their enqueueing.
C10_Ordering == NoFailure => yielded \o wire[S] \o queue[S] = enq

\* The tasks inside the send path (holding inner_sink across the dequeue and
\* the write) and inside the receive path (from the lock statement to the return)
SendInside == { t \in Tasks : spc[t].at = "locked" }
RecvInside == { r \in Receivers : rpc[r] \in {"header", "payload"} }

\* C11 (one sender, one receiver), as stated.  At most one task is inside the
\* send path and at most one task is inside the receive path.
C11_MutualExclusion == Cardinality(SendInside) <= 1 /\ Cardinality(RecvInside) <= 1
\* The send half of C11 alone
C11_SendExclusive == Cardinality(SendInside) <= 1 /\ (SendInside # {} => lock \in SendInside)
\* A sender and a receiver are inside at the same time.
C11_Duplex == SendInside # {} /\ RecvInside # {}

\* Steps of SinkSpec: start_send takes a frame, recv returns one
Enqueued == IF enq' # enq THEN { enq'[Len(enq')] } ELSE {}
Yielded == IF yielded' # yielded THEN { yielded'[Len(yielded')] } ELSE {}

\* C12 (the limit is enforced), as stated.  start_send takes no frame whose
\* payload is longer than the sender's current limit, so none is written, and
\* recv returns no frame whose declared length is greater than the receiver's
\* current limit.
C12_LimitEnforced ==
    [][ /\ \A f \in Enqueued : f.length <= len_limit[S]
        /\ \A f \in Yielded : f.length <= len_limit[Other(S)] ]_vars
\* The outbound half of C12 alone
C12_Outbound == [][ \A f \in Enqueued : f.length <= len_limit[S] ]_vars
\* The inbound half of C12 alone
C12_Inbound == [][ \A f \in Yielded : f.length <= len_limit[Other(S)] ]_vars

\* A poll of poll_flush (inner_sink is free and a task stands at its flush),
\* and one of task t that returns Ready(Ok(())) on a transport that has not failed
FlushPoll == /\ lock = "none" /\ enq' = enq
             /\ \E t \in Tasks : spc[t].at = "flush" /\ (queue' # queue \/ spc'[t] # spc[t])
FlushOk(t) == spc[t].at = "flush" /\ spc'[t].at = "idle" /\ conn[S] /\ conn'[S]

\* C13 (flush), as stated.  While no write is refused, every frame a poll_flush
\* takes off the queue is written to the transport in full, in order; and when
\* it returns Ok the queue is empty and total_byte_len is 0.
C13_FlushDrains ==
    [][ /\ (FlushPoll /\ conn'[S]) => wire'[S] = wire[S] \o Popped
        /\ \A t \in Tasks : FlushOk(t) => queue'[S] = <<>> /\ total_byte_len'[S] = 0 ]_vars

\* C14 (the limit's range).  The channel's limit is 1023 at first and lies in
\* [1023, 32767] in every state; a call set_len_limit(n) that changes it stores
\* n if n is in that range, 1023 if n is below it and 32767 if n is above it.
C14_LimitClamped ==
    /\ \A p \in Peers : len_limit[p] = 1023
    /\ [](\A p \in Peers : 1023 <= len_limit[p] /\ len_limit[p] <= 32767)
    /\ [][ len_limit'[S] # len_limit[S] =>
             \E n \in SinkLimits :
                len_limit'[S] = IF n < 1023 THEN 1023 ELSE IF n > 32767 THEN 32767 ELSE n ]_vars
\* set_len_limit has been called with a value above the range, on a Client in its handshake.
C14_Witness == len_limit[S] = MAX_LEN_LIMIT /\ state[S].tag = "Handshaking"

\* Steps and states of SessionSpec: a call of the Client returns; the frames a
\* step writes; the session is Closed when its Client is no more
CallStep(op) == used' # used /\ ret'.op = op
Written(p) == { wire'[p][i] : i \in (Len(wire[p]) + 1)..Len(wire'[p]) }
Closed(p) == state[p].tag = "Dropped"

\* C15 (client_hello), as stated.  The session enters Handshaking only by a
\* client_hello made in Insecure, in a step that has written the ClientHello
\* frame, and the context stored holds the nonce that frame carries and the
\* private key of the public key it carries; a client_hello in Insecure that
\* returns Ok leaves the session in Handshaking.
C15_ClientHello ==
    [][ /\ (state[S].tag # "Handshaking" /\ state'[S].tag = "Handshaking")
           => /\ CallStep("client_hello") /\ state[S].tag = "Insecure" /\ ret'.res = "Ok"
              /\ \E f \in Written(S) :
                    /\ f.type = "ClientHello" /\ f.length = 48
                    /\ f.payload[1] = state'[S].handshake_context[1].nonce
                    /\ f.payload[2] = compute_public_key(
                                          state'[S].handshake_context[1].private_key)
        /\ (CallStep("client_hello") /\ state[S].tag = "Insecure" /\ ret'.res = "Ok")
           => state'[S].tag = "Handshaking" ]_vars

\* Whether a ServerHello verifies for a handshake in progress, and whether its
\* public key lets the secrets be derived
Verifies(m, st) ==
    /\ m.signature.by = st.server_sig_pub_key[1]
    /\ m.signature.over = << st.handshake_context[1].nonce, m.nonce, m.public_key_bytes >>
Derives(m) == m.public_key_bytes # 0

\* C16 (server_hello in Handshaking).  The call ends in Secure, with secrets
\* derived from the stored private key, the server's public key and both
\* nonces, exactly when the ServerHello verifies and the secrets can be
\* derived; otherwise it returns the crypto error and ends in Insecure with no
\* context, nothing written and the transport as it was.  It never ends in
\* Handshaking.
C16_ServerHello ==
    [][ (CallStep("server_hello") /\ state[S].tag = "Handshaking") =>
          LET m == hello'[1]
              ctx == state[S].handshake_context[1]
          IN
          /\ state'[S].tag # "Handshaking"
          /\ IF Verifies(m, state[S]) /\ Derives(m)
             THEN /\ ret'.res = "Ok" /\ state'[S].tag = "Secure"
                  /\ state'[S].secure[1].session_secrets.pseudorandom_key =
                        << ctx.private_key * (m.public_key_bytes - 100),
                           << ctx.nonce, m.nonce >> >>
             ELSE /\ ret'.res = IF Verifies(m, state[S]) THEN "BadServerPublicKey"
                                ELSE "BadServerHelloSignature"
                  /\ state'[S] = Insecure
                  /\ UNCHANGED << wire, queue, total_byte_len, conn, len_limit >> ]_vars
\* A ServerHello signed by another key has been refused, and one that
\* verified has failed in the key agreement, the transport being open.
C16_Witness ==
    /\ ret.op = "server_hello" /\ ret.res = "BadServerHelloSignature"
    /\ hello[1].signature.by = "other"
    /\ state[S] = Insecure /\ conn[S] /\ wire[S] # <<>>

\* The state an operation is legal in
LegalIn(op) == CASE op = "client_hello" -> "Insecure"
                 [] op = "server_hello" -> "Handshaking"
                 [] op = "downgrade" -> "Secure"

\* C17 (illegal invocations).  client_hello outside Insecure, server_hello
\* outside Handshaking and downgrade outside Secure return None, write and
\* enqueue nothing, and leave the state, with its context or its secrets, as it
\* was; and None is returned in no other case.
C17_IllegalRejected ==
    [][ \A op \in {"client_hello", "server_hello", "downgrade"} :
          CallStep(op) =>
             /\ state[S].tag # LegalIn(op)
                => /\ ret'.res = "None"
                   /\ UNCHANGED << state, wire, queue, total_byte_len, conn, len_limit >>
             /\ ret'.res = "None" => state[S].tag # LegalIn(op) ]_vars
\* server_hello has been refused in Secure, the secrets being kept.
C17_Witness ==
    /\ ret.op = "server_hello" /\ ret.res = "None"
    /\ state[S].tag = "Secure" /\ state[S].secure # <<>>

\* C18 (downgrade), as stated.  A downgrade made in Secure that has written the
\* Downgrade frame leaves the session Insecure, with no secrets and no buffered
\* plaintext, and has written nothing but that frame.
C18_Downgrade ==
    [][ (CallStep("downgrade") /\ state[S].tag = "Secure" /\ DowngradeMessage \in Written(S))
          => /\ state'[S].tag = "Insecure"
             /\ state'[S].secure = <<>>
             /\ Written(S) = { DowngradeMessage } ]_vars

\* C19 (disconnect), as stated.  close is made only in Insecure or Secure, so a
\* Disconnect frame is written only from those states; it leaves the session
\* Closed; and once Closed, no call of the session returns or writes.
C19_Disconnect ==
    [][ /\ (CallStep("close") \/ DisconnectMessage \in Written(S))
           => /\ state[S].tag \in {"Insecure", "Secure"}
              /\ Closed(S)'
        /\ Closed(S) => UNCHANGED << state, ret, used, wire, queue >> ]_vars
\* C19 without its first part: close leaves the session Closed for good
C19_Terminal ==
    [][ /\ CallStep("close") => Closed(S)'
        /\ DisconnectMessage \in Written(S) => CallStep("close")
        /\ Closed(S) => UNCHANGED << state, ret, used, wire, queue >> ]_vars

\* C20 (transport errors), as stated.  A call that returns a transport I/O
\* error leaves the session Closed.
C20_IoCloses ==
    [][ (used' # used /\ ret'.res = "Io") => Closed(S)' ]_vars

\* C21 (negotiation only in Insecure or Secure), as stated.  A
\* request_len_limit made while Handshaking is refused: it does not return Ok,
\* it writes and enqueues nothing and it leaves the limit and the outstanding
\* request as they were.
C21_NegotiationLegal ==
    [][ (CallStep("request_len_limit") /\ state[S].tag = "Handshaking")
          => /\ ret'.res # "Ok"
             /\ UNCHANGED << wire, queue, total_byte_len, len_limit, requested >> ]_vars

\* A frame of peer p was left part-way on the transport: the send writing it
\* was suspended in write_all and its future dropped
PartWritten(p) == \E i \in 1..Len(wire[p]) : wire[p][i].type = "Fragment"

\* C22 (cancellation), as stated.  A step in which a suspended send is dropped
\* with part of its frame written leaves the session Closed, and nothing is
\* written to the transport after a part-written frame.
C22_CancelCloses ==
    [][ /\ (~PartWritten(S) /\ PartWritten(S)') => Closed(S)'
        /\ PartWritten(S) => wire'[S] = wire[S] ]_vars

\* A step in which peer p opens a frame
OpenStep(p) == opened'.peer = p /\ Len(sealed'[Other(p)]) < Len(sealed[Other(p)])

\* The keys of the two sides, once both are Secure: each side's sealing key
\* is the other's opening key, the client's under the label "client" and the
\* server's under "server", and all four nonce sequences are on one base
KeysAgree ==
    (\A p \in Peers : state[p].tag = "Secure") =>
       LET c == SecretsOf("client")
           sv == SecretsOf("server")
       IN
       /\ c.sealing_key.key = sv.opening_key.key /\ c.sealing_key.key[2] = "client"
       /\ sv.sealing_key.key = c.opening_key.key /\ sv.sealing_key.key[2] = "server"
       /\ \A k \in {c.sealing_key, c.opening_key, sv.sealing_key, sv.opening_key} :
             k.nonce_sequence.base = c.sealing_key.nonce_sequence.base

\* C23 (frames opened = frames sealed).  The keys agree as above and every
\* counter is 0 when the session becomes Secure; and while no frame of the
\* peer was altered or reordered, the i-th open of a side is made under the
\* key and the nonce of the peer's i-th seal, succeeds, and returns the i-th
\* plaintext the peer sealed.
C23_OpenedIsSealed ==
    /\ []KeysAgree
    /\ [][ /\ (state[S].tag # "Secure" /\ state'[S].tag = "Secure")
              => \A k \in {SecretsOf(S)'.sealing_key, SecretsOf(S)'.opening_key} :
                    k.nonce_sequence.counter = 0
           /\ \A p \in Peers :
                (OpenStep(p) /\ tampered[Other(p)] = 0) =>
                   LET i == Len(got[p]) + 1
                       f == opened'.frame[1]
                   IN
                   /\ opened'.res = "Ok"
                   /\ opened'.counter = i - 1
                   /\ f.payload[1].k = opened'.key /\ f.payload[1].n = opened'.nonce
                   /\ got'[p] = Append(got[p], sent[Other(p)][i]) ]_vars
\* Each side has opened what the other sealed, several frames one way.
C23_Witness ==
    /\ \A p \in Peers : tampered[p] = 0
    /\ Len(got["server"]) >= 2 /\ got["server"] = sent["client"]
    /\ Len(got["client"]) >= 1 /\ got["client"] = sent["server"]

\* Whether the frame is the one the opener's sequence stands at, unaltered
InSequenceUnaltered(p, frame) ==
    /\ frame.payload[1].x = 0 /\ frame.payload[2].x = 0
    /\ frame.payload[1].n = xor(SecretsOf(p).opening_key.nonce_sequence.base,
                               SecretsOf(p).opening_key.nonce_sequence.counter)

\* C24 (authentication failure is fatal), as stated.  An open of a frame that
\* was altered or that is out of sequence returns CryptoError::Unspecified and
\* leaves the opener's session Closed.
C24_AuthFailureFatal ==
    [][ \A p \in Peers :
          (OpenStep(p) /\ ~InSequenceUnaltered(p, Head(sealed[Other(p)])))
             => opened'.res = "Unspecified" /\ opened'.plaintext = <<>> /\ Closed(p)' ]_vars
\* C24 without the session's part: the open fails with Unspecified, and only then
C24_Surfaces ==
    [][ \A p \in Peers :
          OpenStep(p) =>
             (opened'.res = "Unspecified" <=>
                 ~InSequenceUnaltered(p, Head(sealed[Other(p)]))) ]_vars

\* C25 (what the signature binds).  The session becomes Secure only in a
\* server_hello made in Handshaking whose ServerHello is signed by the key
\* stored with the context, over exactly (the nonce stored in the context, the
\* nonce received, the public key received); and a ServerHello signed by
\* another key, or over content that differs in any of the three parts,
\* returns BadServerHelloSignature.
C25_SignatureBinds ==
    [][ /\ (state[S].tag # "Secure" /\ state'[S].tag = "Secure")
           => /\ CallStep("server_hello") /\ state[S].tag = "Handshaking"
              /\ hello'[1].signature.by = state[S].server_sig_pub_key[1]
              /\ hello'[1].signature.over =
                    << state[S].handshake_context[1].nonce, hello'[1].nonce,
                       hello'[1].public_key_bytes >>
        /\ (CallStep("server_hello") /\ state[S].tag = "Handshaking")
           => \A i \in 1..3 :
                 LET m == hello'[1]
                     content == << state[S].handshake_context[1].nonce, m.nonce,
                                   m.public_key_bytes >>
                 IN
                 (m.signature.by # state[S].server_sig_pub_key[1]
                    \/ m.signature.over[i] # content[i])
                 => ret'.res = "BadServerHelloSignature" /\ state'[S].tag # "Secure" ]_vars
\* A ServerHello signed by the server's key over its own nonce and public key,
\* but for another client nonce, has been refused.
C25_Witness ==
    /\ ret.op = "server_hello" /\ ret.res = "BadServerHelloSignature"
    /\ hello[1].signature.by = "server"
    /\ hello[1].signature.over[2] = hello[1].nonce
    /\ hello[1].signature.over[3] = hello[1].public_key_bytes

\* a is the beginning of b
IsPrefix(a, b) == Len(a) <= Len(b) /\ a = SubSeq(b, 1, Len(a))

\* Everything written was flushed, and reader r has taken every chunk and
\* given all of the last one
Drained(r) ==
    /\ write_buffer.buffer = <<>>
    /\ reader[r].taken = Len(emitted) /\ reader[r].buffer = <<>>

\* What a ReadBuffer has given is the written bytes so far, in order, nothing
\* lost, repeated or added, and all of them once it has read every chunk
GivesWritten(r) ==
    /\ reader[r].res # "Panic"
    /\ IsPrefix(reader[r].out, written)
    /\ Drained(r) => reader[r].out = written

\* C26 (chunker round trip), as stated: GivesWritten, of both ReadBuffers,
\* while the sink has taken every chunk.
C26_RoundTrip == chunker.sink_errors = 0 => \A r \in Readers : GivesWritten(r)
\* C26 of the ReadBuffer of proto/secure/buffer.rs alone
C26_SecureReader == chunker.sink_errors = 0 => GivesWritten("secure")

\* C27 (plain message round trip).  The Message made from a plain message M
\* carries M's type, and its header M's type code and as length the length of
\* its payload, which is the sum of M's field lengths; and turning it back
\* gives M, from the Message itself and from its header and payload bytes.
C27_RoundTrip ==
    codec.done =>
       /\ codec.message.type = codec.m.type
       /\ codec.header[1] = type_code(codec.m.type)
       /\ codec.message.length = Len(codec.message.payload)
       /\ Len(codec.message.payload) = Sum(FieldLens(codec.m.type))
       /\ from_be_bytes(<< codec.header[3], codec.header[4] >>) = Len(codec.message.payload)
       /\ codec.back = [res |-> "Ok", m |-> << codec.m >>]
       /\ codec.received = << codec.message >>
       /\ codec.received_back = [res |-> "Ok", m |-> << codec.m >>]
\* A ServerHello whose three fields differ has come back as it was.
C27_Witness ==
    /\ codec.done /\ codec.m.type = "ServerHello"
    /\ codec.m.fields[1][1] = 8 /\ codec.m.fields[2][1] = 255 /\ codec.m.fields[3][2] = 9
    /\ codec.back.m = << codec.m >>

\* C28 (receive errors).  A poll of the channel as a Stream gives an error
\* item, after which the stream continues, only when the header had parsed;
\* a header that does not parse, a truncated read and an I/O error each give
\* None, the end of the stream.
C28_ErrorItems ==
    rx.last.polled =>
       /\ rx.last.item = "SomeErr" => rx.last.header_parsed
       /\ rx.last.cause \in {"header", "truncated", "io"} => rx.last.item = "None"
\* The part of C28 the code keeps: a truncated read and an I/O error give None
C28_IoEnds ==
    rx.last.polled /\ rx.last.cause \in {"truncated", "io"} => rx.last.item = "None" /\ rx.ended

HoldsSecrets(st) == st.secure # <<>>
HoldsContext(st) == st.handshake_context # <<>>
HoldsServerKey(st) == st.server_sig_pub_key # <<>>

SealCounter(p) == SecretsOf(p).sealing_key.nonce_sequence.counter
OpenCounter(p) == SecretsOf(p).opening_key.nonce_sequence.counter
NonceBase(p) == SecretsOf(p).sealing_key.nonce_sequence.base
SealStep(p) == Len(sent'[p]) = Len(sent[p]) + 1

\* Bit j of a byte, and whether nonce is base with the big-endian 64-bit value
\* i (below 256 here) XORed into its low 8 bytes
Bit(b, j) == (b \div (2 ^ j)) % 2
IsNthNonce(nonce, base, i) ==
    /\ Len(nonce) = AEAD_NONCE_LEN /\ Len(base) = AEAD_NONCE_LEN
    /\ \A k \in 1..(AEAD_NONCE_LEN - 1) : nonce[k] = base[k]
    /\ \A j \in 0..7 : Bit(nonce[AEAD_NONCE_LEN], j) = (Bit(base[AEAD_NONCE_LEN], j) + Bit(i, j)) % 2

\* C31 (nonce counters).  Both counters of a session start at 0; a seal adds
\* one to the sealing counter and an open one to the opening counter, each
\* leaving the other counter and the other peer's counters as they were, and no
\* other step changes a counter; the frame sealed, and the open, use the nonce
\* that is the base with the counter's value before the step XORed into its
\* low 8 bytes.
C31_NonceCounters ==
    [][ \A p \in Peers :
          /\ (state[p].tag # "Secure" /\ state'[p].tag = "Secure")
             => SealCounter(p)' = 0 /\ OpenCounter(p)' = 0
          /\ (state[p].tag = "Secure" /\ state'[p].tag = "Secure")
             => /\ SealCounter(p)' = SealCounter(p) + (IF SealStep(p) THEN 1 ELSE 0)
                /\ OpenCounter(p)' = OpenCounter(p) + (IF OpenStep(p) THEN 1 ELSE 0)
                /\ NonceBase(p)' = NonceBase(p)
                /\ SecretsOf(p)'.opening_key.nonce_sequence.base = NonceBase(p)
          /\ SealStep(p)
             => IsNthNonce(sealed'[p][Len(sealed'[p])].payload[1].n, NonceBase(p),
                           SealCounter(p))
          /\ OpenStep(p) => IsNthNonce(opened'.nonce, NonceBase(p), OpenCounter(p)) ]_vars
\* The server has sealed two frames and opened one, the client's only one:
\* its counters stand at 2 and 1, the client's at 1 and 0.
C31_Witness ==
    /\ state["server"].tag = "Secure"
    /\ SealCounter("server") = 2 /\ OpenCounter("server") = 1
    /\ SealCounter("client") = 1 /\ OpenCounter("client") = 0
    /\ opened.peer = "server" /\ opened.res = "Ok"

\* C32 (no nonce twice), as stated.  The nonces one sequence has given are all
\* different, however many it has given.
C32_NeverReused ==
    ns.started =>
       \A i, j \in 1..Len(ns.emitted) : i # j => ns.emitted[i] # ns.emitted[j]
\* The part of C32 the code keeps: the nonces given within the counter's range
\* are all different, the i-th being the base with i - 1 XORed in
C32_DistinctInRange ==
    ns.started =>
       /\ \A i, j \in 1..Min(Len(ns.emitted), CounterMod) :
             i # j => ns.emitted[i] # ns.emitted[j]
       /\ \A i \in 1..Min(Len(ns.emitted), CounterMod) :
             IsNthNonce(ns.emitted[i], ns.seq.base, i - 1)

\* The steps of ChunkSpec that are a write, and a flush
WriteStep == writes' = writes + 1
FlushStep == /\ chunker'.last.op = "flush" /\ chunker'.len_limit = chunker.len_limit
             /\ writes' = writes /\ reader' = reader
\* The chunks a step has emitted, and the plaintext bytes a WriteBuffer holds
NewChunks == { emitted'[i] : i \in (Len(emitted) + 1)..Len(emitted') }
Buffered(wb) == IF wb.buffer = <<>> THEN 0 ELSE wb.index
RECURSIVE PlainLen(_)
PlainLen(chunks) == IF chunks = <<>> THEN 0
                    ELSE Len(Head(chunks)) - TAG_LEN + PlainLen(Tail(chunks))
WithinLimit(chunk) == Len(chunk) <= chunker.len_limit
WithinAllocation(chunk) ==
    Len(chunk) <= IF write_buffer.buffer = <<>> THEN chunker.len_limit
                  ELSE Max(chunker.len_limit, Len(write_buffer.buffer[1]))

\* What C33 says of a step in which the sink takes every chunk, for a bound
\* on the chunks' lengths: a write leaves fewer plaintext bytes buffered than a
\* chunk holds, the bytes it was given being in the chunks it emitted and in
\* the buffer, and a flush emits one chunk of the buffered bytes and TAG_LEN,
\* shorter than a full one, and leaves the buffer reset, or nothing when
\* nothing is buffered; every chunk emitted is within the bound.
Chunking(Bound(_)) ==
    chunker'.sink_errors = 0 =>
       /\ \A chunk \in NewChunks : Bound(chunk)
       /\ WriteStep =>
             /\ write_buffer'.buffer # <<>>
                => /\ write_buffer'.index > 0
                   /\ write_buffer'.index < Len(write_buffer'.buffer[1]) - TAG_LEN
             /\ write_buffer'.buffer = <<>> => write_buffer'.index = 0
             /\ Buffered(write_buffer) + (Len(written') - Len(written))
                = PlainLen(SubSeq(emitted', Len(emitted) + 1, Len(emitted')))
                  + Buffered(write_buffer')
       /\ FlushStep =>
             /\ write_buffer' = WriteBuffer_new
             /\ IF write_buffer.buffer = <<>> THEN emitted' = emitted
                ELSE /\ Len(emitted') = Len(emitted) + 1
                     /\ Len(emitted'[Len(emitted')]) = write_buffer.index + TAG_LEN
                     /\ Len(emitted'[Len(emitted')]) < Len(write_buffer.buffer[1])

\* C33 (outbound chunking), as stated: the bound on every chunk is the limit in
\* force when it is emitted.
C33_Chunking == [][Chunking(WithinLimit)]_vars
\* C33 with the bound the code keeps: the greater of the limit in force and
\* the limit under which the pending buffer was allocated
C33_ChunkingAllocated == [][Chunking(WithinAllocation)]_vars

\* C39 (index of an absent buffer).  Whenever the WriteBuffer has no buffer,
\* its index is 0.
C39_IndexZero == write_buffer.buffer = <<>> => write_buffer.index = 0
\* C39 while the sink has taken every chunk
C39_IndexZeroNoError == chunker.sink_errors = 0 => C39_IndexZero

\* The sum of the byte lengths of the frames of a queue
RECURSIVE SumByteLen(_)
SumByteLen(q) == IF q = <<>> THEN 0 ELSE byte_len(Head(q)) + SumByteLen(Tail(q))

\* C34 (the running total), as stated.  In every state of the sink
\* total_byte_len is the sum of the byte lengths of the frames in the queue.
C34_TotalIsSum == total_byte_len[S] = SumByteLen(queue[S])

\* C35 (the precondition of send), as stated.  No poll of the sink reaches
\* pop_front().unwrap() on an empty queue: no task has panicked.
C35_NeverPanics == \A t \in Tasks : spc[t].at # "panicked"

\* C36 (frames are atomic on the wire), as stated.  No frame is written behind
\* a frame that was left part-way on the wire (no receiver having lost the
\* framing, which would leave the head frame part-way too).
C36_FramesAtomic ==
    [][ ( /\ Len(wire'[S]) > Len(wire[S]) /\ wire[S] # <<>>
          /\ \A r \in Receivers : rpc[r] # "misframed" )
        => wire[S][Len(wire[S])].type # "Fragment" ]_vars

\* Peer p takes the frame at the head of the other peer's wire (recv)
ReceiveStep(p) ==
    /\ wire[Other(p)] # <<>>
    /\ wire'[Other(p)] = Tail(wire[Other(p)])

\* C37 (received frames fit the receiver's limit), as stated.  Every frame a
\* peer takes off the wire has a payload no longer than that peer's limit at
\* the time it takes it.
C37_ReceivedWithinLimit ==
    [][ \A p \in Peers : ReceiveStep(p) => Head(wire[Other(p)]).length <= len_limit[p] ]_vars

\* No request or response of either peer is queued or on a wire, and neither
\* peer has a request outstanding
NothingOutstanding ==
    \A p \in Peers :
        /\ requested[p] = {}
        /\ \A f \in InFlight(p) :
               f.type \notin {"AdjustLenLimitRequest", "AdjustLenLimitResponse"}
\* No Client call is under way: none is suspended between its send_msg, or its
\* requested.take(), and its set_len_limit
NoCallUnderWay == \A p \in Peers : cpc[p].at = "idle"

\* C38 (limit agreement), as stated.  Whenever no request or response is in
\* flight and neither peer has an outstanding request, both peers have the
\* same limit.
C38_Agreement == NothingOutstanding => len_limit["client"] = len_limit["server"]
\* C38 between calls.  Whenever, besides, no Client call is under way, both
\* peers have the same limit.
C38_AgreementBetweenCalls ==
    NothingOutstanding /\ NoCallUnderWay => len_limit["client"] = len_limit["server"]
\* An accepted change has been applied by both peers and a later request has
\* been rejected, nothing being outstanding.
C38_Witness ==
    /\ NothingOutstanding /\ NoCallUnderWay
    /\ \A p \in Peers : len_limit[p] = 4096
    /\ ret.op = "request_len_limit_responded" /\ ret.res = "Ok" /\ ret.arg = 0

\* C40 (receive errors are values), as stated.  When the base stream has ended
\* or failed under a poll, recv_msg returns an error to its caller and does
\* not panic.
C40_RecvMsgReturnsError ==
    rx.last.polled /\ rx.last.cause \in {"truncated", "io"}
        => recv_msg(rx.last.item) = "Err"
\* C40 for the errors of parsing a header, which recv_msg does return
C40_ParsingErrorReturned ==
    rx.last.polled /\ rx.last.cause = "header" => recv_msg(rx.last.item) = "Err"
====
